---- MODULE Spec2Model ----
(***************************************************************************)
(* Session orchestration of the counseling dialogue generator.             *)
(*                                                                         *)
(* The module models SessionManager.run (src/interactive_session.py), the  *)
(* turn loop that alternates counselor utterance, round evaluation,        *)
(* phase decision and student utterance, together with the evaluator's     *)
(* response sanitising (src/llm_agent/flow_control.py) and the keyword     *)
(* risk assessor and risk merger (src/agents/base.py,                      *)
(* src/agents/flow_control.py).                                            *)
(*                                                                         *)
(* External calls (counselor_bot.chat, flow_control_agent.execute,         *)
(* student_bot.chat, quality_assess) are the only suspension points of the *)
(* loop; each is one action whose result (a text, a raw JSON response, or  *)
(* a failure) is chosen nondeterministically.                              *)
(***************************************************************************)
EXTENDS Integers, Sequences, FiniteSets, TLC

\* ------------------------------------------------------------------ bounds

\* Largest value of SessionManager.max_rounds explored (the attribute is an
\* int set by the caller, --max-rounds on the command line).
MaxRoundsBound == 2

\* max_rounds of the sessions explored with a well-behaved evaluator, long
\* enough to walk the whole transition graph and play on in its last phase.
HonestRounds == 5

\* Largest number of phrases a text handed to the keyword assessor is made of.
MaxPhrases == 2

\* Manual mode has no round limit of its own: the user is asked after every
\* round.  The model lets the user answer "continue" only below this round.
ManualRoundCap == 2

\* ------------------------------------------------------------- data model

\* Python None.
NULL == "null"

\* models.CounselorState: the four counseling phases.
CounselorStates == {"introduction", "exploration", "assessment", "scale_recommendation"}

\* Position of a phase in the linear progression.
PhaseIndex(s) ==
    CASE s = "introduction" -> 1
      [] s = "exploration" -> 2
      [] s = "assessment" -> 3
      [] s = "scale_recommendation" -> 4

\* flow_control.STATE_TRANSITION_GRAPH
STATE_TRANSITION_GRAPH(s) ==
    CASE s = "introduction" -> {"exploration"}
      [] s = "exploration" -> {"assessment"}
      [] s = "assessment" -> {"scale_recommendation"}
      [] s = "scale_recommendation" -> {}

\* FlowControlAgent.is_terminal_state
is_terminal_state(s) == Cardinality(STATE_TRANSITION_GRAPH(s)) = 0

\* CounselorState(value) succeeds exactly for the four phase names and
\* raises ValueError for any other string.
IsCounselorState(v) == v \in CounselorStates

\* A string the evaluator may answer that names no phase.
UnknownState == "unknown"

\* ----------------------------------------------- evaluator response repair

\* clean_response_data: default of a missing "state_transition" section.
DefaultStateTransition ==
    [need_transition |-> FALSE, current_state |-> "introduction", recommended_state |-> NULL,
     transition_reason |-> "stage_not_complete"]

\* _validate_state_transition: the reason written over the evaluator's when
\* it withdraws a recommendation.
IllegalTransitionReason == "illegal_transition"

\* A description string is a sequence of parts, which "; ".join separates:
\* a part is a piece of free text, or the list of keywords the keyword
\* assessor found (whose order, that of a Python set, is not modelled).
\* The empty string is the empty sequence.
DescriptionText(text) == [text |-> text, keywords |-> {}]

\* clean_response_data: default of a missing "risk_assessment" section.
DefaultRiskAssessment ==
    [overall_risk_level |-> 0, suicide_risk |-> 0, self_harm_risk |-> 0,
     harm_others_risk |-> 0, risk_indicators |-> {}, emergency_required |-> FALSE,
     risk_description |-> <<DescriptionText("no_obvious_risk")>>]

\* The validation turning an illegal recommendation into the end signal.
ValidateStateTransitionAsEnd(st) ==
    IF ~st.need_transition THEN st
    ELSE IF st.recommended_state = NULL THEN st
    ELSE IF ~IsCounselorState(st.current_state) \/ ~IsCounselorState(st.recommended_state) THEN st
    ELSE IF st.recommended_state \notin STATE_TRANSITION_GRAPH(st.current_state)
         THEN [st EXCEPT !.recommended_state = NULL,
                         !.transition_reason = IllegalTransitionReason]
         ELSE st

\* _validate_state_transition: the recommendation is checked against the
\* current_state field of the RESPONSE.  A response without need_transition,
\* or with an empty recommendation, is left alone; so is one whose state
\* names raise ValueError (the exception is caught and only printed).
ValidateStateTransition(st) ==
    IF ~st.need_transition THEN st
    ELSE IF st.recommended_state = NULL THEN st
    ELSE IF ~IsCounselorState(st.current_state) \/ ~IsCounselorState(st.recommended_state) THEN st
    ELSE IF st.recommended_state \notin STATE_TRANSITION_GRAPH(st.current_state)
         THEN [st EXCEPT !.need_transition = FALSE, !.recommended_state = NULL,
                         !.transition_reason = IllegalTransitionReason]
         ELSE st

\* _validate_numeric_ranges, risk part: a level outside 0..5 is replaced by 0.
ValidateRiskLevel(v) == IF 0 <= v /\ v <= 5 THEN v ELSE 0

ValidateNumericRanges(risk) ==
    [risk EXCEPT !.overall_risk_level = ValidateRiskLevel(@),
                 !.suicide_risk = ValidateRiskLevel(@),
                 !.self_harm_risk = ValidateRiskLevel(@),
                 !.harm_others_risk = ValidateRiskLevel(@)]

\* FlowControlAgent.clean_response_data on the parsed JSON object; the
\* has_... flags say whether the section's key is present in the object and
\* risk_missing names the keys absent from a present risk section (an absent
\* key is neither defaulted nor validated; its value here is a placeholder
\* nothing reads, the response being rejected afterwards).
clean_response_data(data) ==
    [risk_missing |-> IF data.has_risk_assessment THEN data.risk_missing ELSE {},
     state_transition |->
        ValidateStateTransition(IF data.has_state_transition
                                THEN data.state_transition
                                ELSE DefaultStateTransition),
     risk_assessment |->
        ValidateNumericRanges(IF data.has_risk_assessment
                              THEN data.risk_assessment
                              ELSE DefaultRiskAssessment)]

\* result_class(**resp_data): the pydantic model accepts recommended_state
\* only when it is None or one of the four phase names (Optional[Literal]),
\* and requires every field of the risk section (Field(...)).
ResultClassAccepts(data) ==
    /\ data.state_transition.recommended_state \in CounselorStates \cup {NULL}
    /\ data.risk_missing = {}

\* ------------------------------------------------------ keyword risk model

\* A text is a sequence of characters; each Chinese character is written as
\* its pinyin syllable with tone (two characters read alike get distinct
\* names).  Space is the separator " ".join puts between messages.
Space == "sp"

\* settings.SystemConfig.SUICIDE_KEYWORDS
SUICIDE_KEYWORDS ==
    { <<"zi4", "sha1">>,                              \* zi sha
      <<"jie2", "shu4", "sheng1", "ming4">>,          \* jie shu sheng ming
      <<"bu4", "xiang3", "huo2">>,                    \* bu xiang huo
      <<"si3", "le5", "suan4", "le5">>,               \* si le suan le
      <<"xiang3", "si3">>,                            \* xiang si
      <<"zi4", "wo3", "liao3", "duan4">>,             \* zi wo liao duan
      <<"huo2", "zhe5", "mei2", "yi4", "si1">>,       \* huo zhe mei yi si
      <<"xiao1", "shi1">>,                            \* xiao shi
      <<"li2", "kai1", "zhe4", "ge4", "shi4", "jie4">>, \* li kai zhe ge shi jie
      <<"jie3", "tuo1">> }                            \* jie tuo

\* settings.SystemConfig.SELF_HARM_KEYWORDS
SELF_HARM_KEYWORDS ==
    { <<"zi4", "can2">>,
      <<"ge1", "wan4">>,
      <<"shang1", "hai4", "zi4", "ji3">>,
      <<"zi4", "wo3", "shang1", "hai4">>,
      <<"qie1", "ge1">>,
      <<"zhuang4", "qiang2">>,
      <<"na2", "dao1">>,
      <<"teng2", "tong4">>,
      <<"liu2", "xue4">>,
      <<"hua2", "shang1">> }

\* settings.SystemConfig.HARM_OTHERS_KEYWORDS
HARM_OTHERS_KEYWORDS ==
    { <<"shang1", "hai4", "bie2", "ren2">>,
      <<"bao4", "fu4">>,
      <<"sha1", "si3">>,
      <<"da3", "ji1">>,
      <<"gong1", "ji1">>,
      <<"bao4b", "li4">>,
      <<"hen4", "si3">>,
      <<"nong4", "si3">>,
      <<"jiao4", "xun4">> }

\* _calculate_risk_level: high_risk_keywords
HIGH_RISK_KEYWORDS ==
    { <<"zi4", "sha1">>, <<"xiang3", "si3">>, <<"jie2", "shu4", "sheng1", "ming4">>,
      <<"ge1", "wan4">>, <<"sha1", "si3">> }

\* Python's "kw in content" on strings: kw occurs as a substring.
Contains(content, kw) ==
    \E i \in 1..(Len(content) - Len(kw) + 1) : SubSeq(content, i, i + Len(kw) - 1) = kw

\* The keywords of a list the content ends with.
MatchedKeywordsAtEnd(content, keywords) ==
    {kw \in keywords : Len(kw) <= Len(content)
                       /\ SubSeq(content, Len(content) - Len(kw) + 1, Len(content)) = kw}

\* The keywords of a list that occur in the content.
MatchedKeywords(content, keywords) == {kw \in keywords : Contains(content, kw)}

\* The level computed without the early return for "no keyword matched".
calculate_risk_level_no_early_return(content, keywords) ==
    LET matched == MatchedKeywords(content, keywords)
        risk_score == Cardinality(matched)
                      + 2 * Cardinality(MatchedKeywords(content, HIGH_RISK_KEYWORDS))
    IN  IF risk_score >= 5 THEN 5
        ELSE IF risk_score >= 3 THEN 4
        ELSE IF risk_score >= 2 THEN 3
        ELSE IF risk_score >= 1 THEN 2
        ELSE 1

\* The level computed without the weight of the high-risk keywords.
calculate_risk_level_unweighted(content, keywords) ==
    LET matched == MatchedKeywords(content, keywords)
        risk_score == Cardinality(matched)
    IN  IF matched = {} THEN 0
        ELSE IF risk_score >= 5 THEN 5
        ELSE IF risk_score >= 3 THEN 4
        ELSE IF risk_score >= 2 THEN 3
        ELSE IF risk_score >= 1 THEN 2
        ELSE 1

\* RiskAssessmentMixin._calculate_risk_level.  The weight of 2 is added for
\* every high-risk keyword found in the content, whether or not it belongs
\* to the category being scored.
calculate_risk_level(content, keywords) ==
    LET matched == MatchedKeywords(content, keywords)
        risk_score == Cardinality(matched)
                      + 2 * Cardinality(MatchedKeywords(content, HIGH_RISK_KEYWORDS))
    IN  IF matched = {} THEN 0
        ELSE IF risk_score >= 5 THEN 5
        ELSE IF risk_score >= 3 THEN 4
        ELSE IF risk_score >= 2 THEN 3
        ELSE IF risk_score >= 1 THEN 2
        ELSE 1

\* Largest of three levels.
Max2(a, b) == IF a >= b THEN a ELSE b
Max3(a, b, c) == Max2(a, Max2(b, c))

\* settings.SystemConfig.RISK_THRESHOLD
RISK_THRESHOLD == 3

\* The assessment with the emergency flag set only above the threshold.
assess_risk_strict(content) ==
    LET suicide_risk == calculate_risk_level(content, SUICIDE_KEYWORDS)
        self_harm_risk == calculate_risk_level(content, SELF_HARM_KEYWORDS)
        harm_others_risk == calculate_risk_level(content, HARM_OTHERS_KEYWORDS)
        overall_risk == Max3(suicide_risk, self_harm_risk, harm_others_risk)
    IN  [suicide_risk |-> suicide_risk,
         self_harm_risk |-> self_harm_risk,
         harm_others_risk |-> harm_others_risk,
         overall_risk |-> overall_risk,
         risk_indicators |->
            (IF suicide_risk > 0 THEN MatchedKeywords(content, SUICIDE_KEYWORDS) ELSE {})
            \cup (IF self_harm_risk > 0 THEN MatchedKeywords(content, SELF_HARM_KEYWORDS) ELSE {})
            \cup (IF harm_others_risk > 0 THEN MatchedKeywords(content, HARM_OTHERS_KEYWORDS) ELSE {}),
         emergency_required |-> overall_risk > RISK_THRESHOLD]

\* RiskAssessmentMixin.assess_risk
assess_risk(content) ==
    LET suicide_risk == calculate_risk_level(content, SUICIDE_KEYWORDS)
        self_harm_risk == calculate_risk_level(content, SELF_HARM_KEYWORDS)
        harm_others_risk == calculate_risk_level(content, HARM_OTHERS_KEYWORDS)
        overall_risk == Max3(suicide_risk, self_harm_risk, harm_others_risk)
    IN  [suicide_risk |-> suicide_risk,
         self_harm_risk |-> self_harm_risk,
         harm_others_risk |-> harm_others_risk,
         overall_risk |-> overall_risk,
         risk_indicators |->
            (IF suicide_risk > 0 THEN MatchedKeywords(content, SUICIDE_KEYWORDS) ELSE {})
            \cup (IF self_harm_risk > 0 THEN MatchedKeywords(content, SELF_HARM_KEYWORDS) ELSE {})
            \cup (IF harm_others_risk > 0 THEN MatchedKeywords(content, HARM_OTHERS_KEYWORDS) ELSE {}),
         emergency_required |-> overall_risk >= RISK_THRESHOLD]

\* " ".join(messages)
RECURSIVE JoinWithSpace(_)
JoinWithSpace(texts) ==
    IF Len(texts) = 0 THEN <<>>
    ELSE IF Len(texts) = 1 THEN texts[1]
    ELSE texts[1] \o <<Space>> \o JoinWithSpace(Tail(texts))

\* The last n elements of a sequence (history[-n:]).
LastN(seq, n) == IF Len(seq) <= n THEN seq ELSE SubSeq(seq, Len(seq) - n + 1, Len(seq))

\* Contents of the messages of a role, in order.
RECURSIVE ContentsOfRole(_, _)
ContentsOfRole(history, role) ==
    IF Len(history) = 0 THEN <<>>
    ELSE (IF history[1].role = role THEN <<history[1].content>> ELSE <<>>)
         \o ContentsOfRole(Tail(history), role)

\* FlowControlAgent._rule_based_risk_assessment (agents/flow_control.py): the
\* keyword assessor on the student messages among the last five messages.
rule_based_risk_assessment(history) ==
    IF Len(history) = 0
    THEN [suicide_risk |-> 0, self_harm_risk |-> 0, harm_others_risk |-> 0,
          overall_risk |-> 0, risk_indicators |-> {}, emergency_required |-> FALSE]
    ELSE assess_risk(JoinWithSpace(ContentsOfRole(LastN(history, 5), "student")))

\* _merge_risk_assessments: the sentence naming the keywords the rule-based
\* assessment found, empty when it found none.
RuleDescription(rule_indicators) ==
    IF rule_indicators = {} THEN <<>>
    ELSE <<[text |-> "risk_keywords_detected", keywords |-> rule_indicators]>>

\* The merge with the overall level recomputed from the merged categories.
merge_risk_assessments_recomputed(llm_risk, rule_risk) ==
    [overall_risk_level |->
        Max3(Max2(llm_risk.suicide_risk, rule_risk.suicide_risk),
             Max2(llm_risk.self_harm_risk, rule_risk.self_harm_risk),
             Max2(llm_risk.harm_others_risk, rule_risk.harm_others_risk)),
     suicide_risk |-> Max2(llm_risk.suicide_risk, rule_risk.suicide_risk),
     self_harm_risk |-> Max2(llm_risk.self_harm_risk, rule_risk.self_harm_risk),
     harm_others_risk |-> Max2(llm_risk.harm_others_risk, rule_risk.harm_others_risk),
     emergency_required |-> llm_risk.emergency_required \/ rule_risk.emergency_required,
     risk_indicators |-> llm_risk.risk_indicators \cup rule_risk.risk_indicators,
     risk_description |->
        llm_risk.risk_description \o RuleDescription(rule_risk.risk_indicators)]

\* FlowControlAgent._merge_risk_assessments (agents/flow_control.py): llm_risk
\* is the evaluator's dict, rule_risk the keyword assessor's RiskAssessment.
merge_risk_assessments(llm_risk, rule_risk) ==
    [overall_risk_level |-> Max2(llm_risk.overall_risk_level, rule_risk.overall_risk),
     suicide_risk |-> Max2(llm_risk.suicide_risk, rule_risk.suicide_risk),
     self_harm_risk |-> Max2(llm_risk.self_harm_risk, rule_risk.self_harm_risk),
     harm_others_risk |-> Max2(llm_risk.harm_others_risk, rule_risk.harm_others_risk),
     emergency_required |-> llm_risk.emergency_required \/ rule_risk.emergency_required,
     risk_indicators |-> llm_risk.risk_indicators \cup rule_risk.risk_indicators,
     risk_description |->
        llm_risk.risk_description \o RuleDescription(rule_risk.risk_indicators)]

\* The termination test looking at the emergency flag only.
should_terminate_session_flag_only(risk_assessment) ==
    risk_assessment.emergency_required

\* FlowControlAgent.should_terminate_session (agents/flow_control.py)
should_terminate_session(risk_assessment) ==
    risk_assessment.emergency_required
    \/ risk_assessment.overall_risk_level >= RISK_THRESHOLD

\* --------------------------------------------------------- session state

VARIABLES
    pc,                       \* position of SessionManager.run (see below)
    auto_mode,                \* SessionManager.auto_mode
    max_rounds,               \* SessionManager.max_rounds
    current_round,            \* SessionManager.current_round
    conversation_history,     \* SessionManager.conversation_history
    current_state,            \* counselor_bot.current_state
    counselor_state_history,  \* SessionManager.counselor_state_history
    flow_control_results,     \* SessionManager.flow_control_results
    state_transition_history, \* SessionManager.state_transition_history
    calls,                    \* external calls completed, per port
    failures,                 \* external calls that raised
    call,                     \* a function applied on its own: name and arguments
    result,                   \* and what it returned
    student_bot,              \* a StudentBot object driven on its own
    chat_bot,                 \* a ChatBot (agents/base.py) driven on its own
    session,                  \* a ConversationSession (main.py) and its bots
    managers                  \* SessionManager objects running side by side

vars == <<pc, auto_mode, max_rounds, current_round, conversation_history,
          current_state, counselor_state_history, flow_control_results,
          state_transition_history, calls, failures, call, result, student_bot,
          chat_bot, session, managers>>

\* The variables of SessionManager.run.
session_vars == <<pc, auto_mode, max_rounds, current_round, conversation_history,
                  current_state, counselor_state_history, flow_control_results,
                  state_transition_history, calls, failures>>

\* What a running session leaves alone: the function applications and the
\* objects driven on their own.
aside == <<call, result, student_bot, chat_bot, session, managers>>

\* No function is being applied on its own while a session runs.
NoCall == [op |-> "none"]
NoResult == [returned |-> FALSE]

\* No StudentBot is driven on its own.
NoStudentBot == [constructed |-> FALSE]

\* No ChatBot is driven on its own, no ConversationSession exists.
NoChatBot == [constructed |-> FALSE]
NoSession == [constructed |-> FALSE]

\* No SessionManager objects run side by side.
NoManagers == [constructed |-> FALSE]
\* pc: "start"        run() entered, session initialised, nothing said yet
\*     "counselor"    awaiting counselor_bot.chat            (top of the loop)
\*     "flow_control" awaiting flow_control_agent.execute
\*     "student"      awaiting student_bot.chat
\*     "done"         the loop was left by break; export_session_data runs
\*     "exported"     run() returned after the export
\*     "returned"     run() returned before the loop (user declined)
\*     "exited"       sys.exit(0): the user typed q
\*     "failed"       an exception left run() from inside the loop
\*     "export_failed" an exception left run() from export_session_data
LoopPcs == {"counselor", "flow_control", "student"}

\* Texts a student utterance may consist of: one without any risk keyword
\* (wo hen lei) and one with a high-priority suicide keyword (wo xiang zi sha).
TextCalm == <<"wo3", "hen3", "lei4">>
TextSuicidal == <<"wo3", "xiang3", "zi4", "sha1">>
StudentTexts == {TextCalm, TextSuicidal}

\* The counselor's utterance (its wording plays no part in the turn loop).
CounselorText == <<"ni3", "hao3">>

\* Risk sections the evaluator may answer: no risk, an emergency, and
\* levels out of range.
EvalRisks ==
    { [overall_risk_level |-> 0, suicide_risk |-> 0, self_harm_risk |-> 0,
       harm_others_risk |-> 0, risk_indicators |-> {}, emergency_required |-> FALSE,
       risk_description |-> <<>>],
      [overall_risk_level |-> 5, suicide_risk |-> 5, self_harm_risk |-> 0,
       harm_others_risk |-> 0, risk_indicators |-> {}, emergency_required |-> TRUE,
       risk_description |-> <<DescriptionText("crisis")>>],
      [overall_risk_level |-> 7, suicide_risk |-> 7, self_harm_risk |-> 0,
       harm_others_risk |-> 0, risk_indicators |-> {}, emergency_required |-> FALSE,
       risk_description |-> <<>>] }

\* State-transition sections the evaluator may answer.  Without
\* need_transition the recommendation is read by no code path.
EvalStateTransitions ==
    { [need_transition |-> FALSE, current_state |-> c, recommended_state |-> NULL,
       transition_reason |-> "evaluator_reason"] :
        c \in CounselorStates }
    \cup
    { [need_transition |-> TRUE, current_state |-> c, recommended_state |-> r,
       transition_reason |-> "evaluator_reason"] :
        c \in CounselorStates \cup {UnknownState},
        r \in CounselorStates \cup {NULL, UnknownState} }

\* Parsed JSON objects the evaluator may answer, a section present or not.
EvalResponses ==
    { [has_state_transition |-> TRUE, state_transition |-> st,
       has_risk_assessment |-> TRUE, risk_assessment |-> r, risk_missing |-> {}] :
        st \in EvalStateTransitions, r \in EvalRisks }
    \cup
    { [has_state_transition |-> FALSE, state_transition |-> DefaultStateTransition,
       has_risk_assessment |-> hr, risk_assessment |-> DefaultRiskAssessment,
       risk_missing |-> {}] :
        hr \in BOOLEAN }
    \cup
    { [has_state_transition |-> FALSE, state_transition |-> DefaultStateTransition,
       has_risk_assessment |-> TRUE, risk_assessment |-> DefaultRiskAssessment,
       risk_missing |-> {"suicide_risk"}] }

\* Answers of an evaluator that reports the counselor's actual phase as
\* current_state, recommends nothing, the end of the session, or a
\* successor of that phase in the graph, and reports no risk.
HonestResponses(actual) ==
    { [has_state_transition |-> TRUE, state_transition |-> st,
       has_risk_assessment |-> TRUE, risk_assessment |-> r, risk_missing |-> {}] :
        st \in { [need_transition |-> n, current_state |-> actual, recommended_state |-> t,
                   transition_reason |-> "evaluator_reason"] :
                    n \in BOOLEAN, t \in STATE_TRANSITION_GRAPH(actual) \cup {NULL} }
               \ { [need_transition |-> FALSE, current_state |-> actual, recommended_state |-> t,
                    transition_reason |-> "evaluator_reason"] :
                    t \in STATE_TRANSITION_GRAPH(actual) },
        r \in { x \in EvalRisks : x.overall_risk_level = 0 } }

\* ConversationMessage
Message(role, content, state, round_number) ==
    [role |-> role, content |-> content, state |-> state, round_number |-> round_number]

\* SessionManager.__init__, CounselorBot.__init__
Init ==
    /\ pc = "start"
    /\ auto_mode \in BOOLEAN
    /\ max_rounds \in 0..MaxRoundsBound
    /\ current_round = 0
    /\ conversation_history = <<>>
    /\ current_state = "introduction"
    /\ counselor_state_history = <<>>
    /\ flow_control_results = <<>>
    /\ state_transition_history = <<>>
    /\ calls = [counselor |-> 0, flow_control |-> 0, student |-> 0, quality |-> 0]
    /\ failures = 0
    /\ call = NoCall
    /\ result = NoResult
    /\ student_bot = NoStudentBot
    /\ chat_bot = NoChatBot
    /\ session = NoSession
    /\ managers = NoManagers

\* The round evaluated before the counselor has answered.
LoopOrderEvaluationFirst == <<"flow_control", "counselor", "student">>

\* The student asked before the evaluation.
LoopOrderStudentFirst == <<"counselor", "student", "flow_control">>

\* The order of the three awaited calls of one pass through the loop body.
LoopOrder == <<"counselor", "flow_control", "student">>

\* The call awaited after the call `step` of the same pass has returned.
StepAfter(step) ==
    CHOOSE nxt \in LoopPcs :
        \E i \in 1..3 : LoopOrder[i] = step /\ LoopOrder[(i % 3) + 1] = nxt

\* A failed call awaited again.
OnCallFailureRetry(at) == at

\* Where run() is after an awaited call raised: nothing in run() catches the
\* RuntimeError, so it leaves the loop and run().
OnCallFailure(at) == "failed"

\* run(), lines 248-298: the confirmation before the dialogue (asked in
\* manual mode only) and the student's initial question as turn 1.
StartConversation(confirmation, question) ==
    /\ pc = "start"
    /\ IF ~auto_mode /\ confirmation \in {"no", "quit"}
       THEN /\ pc' = (IF confirmation = "no" THEN "returned" ELSE "exited")
            /\ UNCHANGED <<auto_mode, current_round, conversation_history>>
       ELSE /\ pc' = LoopOrder[1]
            /\ auto_mode' = (auto_mode \/ confirmation = "auto")
            /\ current_round' = 1
            /\ conversation_history' =
                 Append(conversation_history, Message("student", question, NULL, 1))
    /\ UNCHANGED <<max_rounds, current_state, counselor_state_history,
                   flow_control_results, state_transition_history, calls, failures>>
    /\ UNCHANGED aside

\* run(), lines 301-324: the counselor's reply, tagged with the phase and
\* the round in force, is appended to the history.
CounselorChat ==
    /\ pc = "counselor"
    /\ pc' = StepAfter("counselor")
    /\ conversation_history' =
         Append(conversation_history,
                Message("counselor", CounselorText, current_state, current_round))
    /\ counselor_state_history' =
         Append(counselor_state_history, [round |-> current_round, state |-> current_state])
    /\ calls' = [calls EXCEPT !.counselor = @ + 1]
    /\ UNCHANGED <<auto_mode, max_rounds, current_round, current_state,
                   flow_control_results, state_transition_history, failures>>
    /\ UNCHANGED aside

\* ChatBot.chat / Agent.execute raise RuntimeError when the call fails (for
\* the evaluator also when the answer does not parse or does not validate).
CallFails ==
    /\ pc \in LoopPcs
    /\ pc' = OnCallFailure(pc)
    /\ calls' = [calls EXCEPT ![pc] = @ + 1]
    /\ failures' = failures + 1
    /\ UNCHANGED <<auto_mode, max_rounds, current_round, conversation_history,
                   current_state, counselor_state_history, flow_control_results,
                   state_transition_history>>
    /\ UNCHANGED aside

\* An end test that never recognises the end signal.
ShouldEndNever(st) == FALSE

\* run(), lines 376-390: need_transition with no recommended state is the
\* evaluator's signal to end the session.
ShouldEnd(st) == st.need_transition /\ st.recommended_state = NULL

\* A recommendation logged but never applied to the counselor.
StateAfterTransitionIgnored(cur, st) == cur

\* run(), lines 391-405: any other recommendation that reaches the loop is
\* applied by counselor_bot.update_state, which assigns it unconditionally.
StateAfterTransition(cur, st) ==
    IF st.need_transition /\ st.recommended_state # NULL THEN st.recommended_state ELSE cur

\* The entry written after the transition was applied, so that from_state
\* names the phase entered.
TransitionLogAfterUpdate(log, round, cur, st) ==
    IF st.need_transition
    THEN Append(log, [round |-> round, from_state |-> StateAfterTransition(cur, st),
                      to_state |-> st.recommended_state,
                      reason |-> st.transition_reason,
                      auto_end |-> st.need_transition /\ st.recommended_state = NULL])
    ELSE log

\* run(), lines 376-402: the entry appended to state_transition_history.
TransitionLogAfter(log, round, cur, st) ==
    IF st.need_transition
    THEN Append(log, [round |-> round, from_state |-> cur,
                      to_state |-> st.recommended_state,
                      reason |-> st.transition_reason, auto_end |-> ShouldEnd(st)])
    ELSE log

\* The auto-mode continuation test with the comparison made strict.
ShouldContinueStrict(should_end, auto, round, maxr, confirmation) ==
    IF should_end THEN FALSE
    ELSE IF auto THEN ~(round > maxr)
    ELSE confirmation = "yes"

\* The auto-mode continuation test comparing against one round more.
ShouldContinueOneMore(should_end, auto, round, maxr, confirmation) ==
    IF should_end THEN FALSE
    ELSE IF auto THEN ~(round >= maxr + 1)
    ELSE confirmation = "yes"

\* run(), lines 420-445: whether the loop goes on to the student's turn.
\* confirmation is the user's answer, asked in manual mode only.
ShouldContinue(should_end, auto, round, maxr, confirmation) ==
    IF should_end THEN FALSE
    ELSE IF auto THEN ~(round >= maxr)
    ELSE confirmation = "yes"

\* run(), lines 326-447: the evaluator's answer is repaired and validated
\* (Agent.execute), recorded, a recommended transition is applied, and the
\* loop either ends or moves on to the next round.
FlowControl(data, confirmation) ==
    LET cleaned == clean_response_data(data)
        st == cleaned.state_transition
        asked == ~ShouldEnd(st) /\ ~auto_mode
        go_on == ShouldContinue(ShouldEnd(st), auto_mode, current_round, max_rounds, confirmation)
    IN  /\ pc = "flow_control"
        /\ ResultClassAccepts(cleaned)
        /\ asked /\ confirmation = "yes" => current_round < ManualRoundCap
        /\ calls' = [calls EXCEPT !.flow_control = @ + 1]
        /\ flow_control_results' =
             Append(flow_control_results,
                    [round |-> current_round,
                     need_transition |-> st.need_transition,
                     recommended_state |-> st.recommended_state,
                     transition_reason |-> st.transition_reason,
                     risk_assessment |-> cleaned.risk_assessment])
        /\ state_transition_history' =
             TransitionLogAfter(state_transition_history, current_round, current_state, st)
        /\ current_state' = StateAfterTransition(current_state, st)
        /\ IF asked /\ confirmation = "quit"
           THEN pc' = "exited" /\ UNCHANGED current_round
           ELSE IF go_on
           THEN pc' = StepAfter("flow_control") /\ current_round' = current_round + 1
           ELSE pc' = "done" /\ UNCHANGED current_round
        /\ UNCHANGED <<auto_mode, max_rounds, conversation_history,
                       counselor_state_history, failures>>
        /\ UNCHANGED aside

\* run(), lines 449-469: the student's reply opens the next round.
StudentChat(text) ==
    /\ pc = "student"
    /\ pc' = StepAfter("student")
    /\ conversation_history' =
         Append(conversation_history, Message("student", text, NULL, current_round))
    /\ calls' = [calls EXCEPT !.student = @ + 1]
    /\ UNCHANGED <<auto_mode, max_rounds, current_round, current_state,
                   counselor_state_history, flow_control_results,
                   state_transition_history, failures>>
    /\ UNCHANGED aside

\* run(), lines 471-472, export_session_data: the quality assessment is one
\* more external call; its failure leaves run() with an exception.
ExportSessionData(ok) ==
    /\ pc = "done"
    /\ pc' = IF ok THEN "exported" ELSE "export_failed"
    /\ calls' = [calls EXCEPT !.quality = @ + 1]
    /\ failures' = IF ok THEN failures ELSE failures + 1
    /\ UNCHANGED <<auto_mode, max_rounds, current_round, conversation_history,
                   current_state, counselor_state_history, flow_control_results,
                   state_transition_history>>
    /\ UNCHANGED aside

\* Answers of get_auto_mode_confirmation; get_user_confirmation has no "auto".
Confirmations == {"yes", "no", "auto", "quit"}

\* Answers of get_user_confirmation, asked in manual mode only (and exit on
\* quit); in auto mode no answer is read.
ContinueAnswers == IF auto_mode THEN {"yes"} ELSE Confirmations \ {"auto"}

Next ==
    \/ \E c \in Confirmations, q \in StudentTexts : StartConversation(c, q)
    \/ CounselorChat
    \/ \E data \in EvalResponses, c \in ContinueAnswers : FlowControl(data, c)
    \/ \E text \in StudentTexts : StudentChat(text)
    \/ CallFails
    \/ \E ok \in BOOLEAN : ExportSessionData(ok)

Spec == Init /\ [][Next]_vars
\* The same loop under weak fairness: a session whose next step is enabled
\* (the awaited call returns or raises, the user answers) takes it.
FairSpec == Spec /\ WF_vars(Next)

\* main() with --auto: the session is constructed in auto mode.
InitAuto == Init /\ auto_mode

\* The auto-mode sessions under the same weak fairness.
FairAutoSpec == InitAuto /\ [][Next]_vars /\ WF_vars(Next)

\* Auto-mode sessions with an evaluator that always names the counselor's
\* actual phase, recommends only successors of it, and reports no risk.
InitHonest ==
    /\ pc = "start"
    /\ auto_mode = TRUE
    /\ max_rounds = HonestRounds
    /\ current_round = 0
    /\ conversation_history = <<>>
    /\ current_state = "introduction"
    /\ counselor_state_history = <<>>
    /\ flow_control_results = <<>>
    /\ state_transition_history = <<>>
    /\ calls = [counselor |-> 0, flow_control |-> 0, student |-> 0, quality |-> 0]
    /\ failures = 0
    /\ call = NoCall
    /\ result = NoResult
    /\ student_bot = NoStudentBot
    /\ chat_bot = NoChatBot
    /\ session = NoSession
    /\ managers = NoManagers

NextHonest ==
    \/ StartConversation("yes", TextCalm)
    \/ CounselorChat
    \/ \E data \in HonestResponses(current_state) : FlowControl(data, "yes")
    \/ StudentChat(TextCalm)
    \/ CallFails
    \/ \E ok \in BOOLEAN : ExportSessionData(ok)

SpecHonest == InitHonest /\ [][NextHonest]_vars
\* ------------------------------------------- functions applied on their own

\* Phrases the assessed texts are made of: two without any keyword (wo hen
\* lei; si), suicide keywords (zi sha, xiang si: high-risk; xiao shi),
\* self-harm keywords (teng tong, liu xue; ge wan: high-risk) and harm-others
\* keywords (sha si: high-risk; bao fu).  zi sha followed by si reads
\* zi sha si, which also contains sha si.
Phrases ==
    { <<"wo3", "hen3", "lei4">>, <<"si3">>,
      <<"zi4", "sha1">>, <<"xiang3", "si3">>, <<"xiao1", "shi1">>,
      <<"teng2", "tong4">>, <<"liu2", "xue4">>, <<"ge1", "wan4">>,
      <<"sha1", "si3">>, <<"bao4", "fu4">> }

\* The texts of at most n phrases, the empty text included.
RECURSIVE TextsUpTo(_)
TextsUpTo(n) ==
    IF n = 0 THEN {<<>>}
    ELSE LET shorter == TextsUpTo(n - 1)
         IN  shorter \cup {t \o ph : t \in shorter, ph \in Phrases}

\* What the keyword assessor returns on the given texts.
RuleRisks(texts) == {assess_risk(t) : t \in texts}

\* Risk dicts as the evaluator's answer holds them after sanitising: levels
\* in range, any combination of overall level, category levels and flag.
LlmRisks ==
    { [overall_risk_level |-> o, suicide_risk |-> c, self_harm_risk |-> 0,
       harm_others_risk |-> h, risk_indicators |-> ind, emergency_required |-> e,
       risk_description |-> d] :
        o \in {0, 3, 5}, c \in {0, 4}, h \in {0, 2},
        ind \in {{}, {<<"zi4", "sha1">>}}, e \in BOOLEAN,
        d \in {<<>>, <<DescriptionText("crisis")>>} }

\* Risk sections of a raw answer: those of EvalRisks and two whose overall
\* level is not the largest category level, one of them out of range.
RawRisks ==
    EvalRisks \cup
    { [overall_risk_level |-> 7, suicide_risk |-> 5, self_harm_risk |-> 0,
       harm_others_risk |-> 0, risk_indicators |-> {}, emergency_required |-> FALSE,
       risk_description |-> <<>>],
      [overall_risk_level |-> 1, suicide_risk |-> 0, self_harm_risk |-> 2,
       harm_others_risk |-> 0, risk_indicators |-> {}, emergency_required |-> FALSE,
       risk_description |-> <<>>] }

\* Keys of the risk section that _validate_numeric_ranges looks at.
RiskLevelKeys == {"overall_risk_level", "suicide_risk", "self_harm_risk", "harm_others_risk"}

\* Parsed answers handed to Agent.execute's repair: each section present or
\* not, and a present risk section complete or lacking level keys.
RawResponses ==
    { [has_state_transition |-> hs, state_transition |-> st,
       has_risk_assessment |-> hr, risk_assessment |-> r, risk_missing |-> m] :
        hs \in BOOLEAN,
        st \in { [need_transition |-> TRUE, current_state |-> "introduction",
                  recommended_state |-> t, transition_reason |-> "evaluator_reason"] :
                    t \in {"exploration", "assessment", NULL} },
        hr \in BOOLEAN, r \in RawRisks,
        m \in {{}, {"suicide_risk"}, RiskLevelKeys} }

\* Conversation histories handed to evaluate_round: a student turn, the
\* counselor's answer, a second student turn.
RecentHistories ==
    { <<Message("student", t1, NULL, 1), Message("counselor", CounselorText, "introduction", 1),
        Message("student", t2, NULL, 2)>> :
        t1 \in {TextCalm, <<"teng2", "tong4">>}, t2 \in {TextCalm, TextSuicidal, <<"liu2", "xue4">>} }

\* The applications explored, the assessed texts being those given.
FunctionCalls(texts) ==
    LET rules == RuleRisks(texts)
    IN  { [op |-> "execute", data |-> d] : d \in RawResponses }
        \cup { [op |-> "assess_risk", content |-> t] : t \in texts }
        \cup { [op |-> "merge", llm_risk |-> a, rule_risk |-> r] :
                  a \in LlmRisks, r \in rules }
        \cup { [op |-> "merge_rounds", llm_risk |-> a, first |-> r1, second |-> r2] :
                  a \in {x \in LlmRisks : x.overall_risk_level = 0 /\ x.suicide_risk = 0},
                  r1 \in rules, r2 \in rules }
        \cup { [op |-> "should_terminate_session", risk_assessment |-> a] : a \in LlmRisks }
        \cup { [op |-> "evaluate_round", llm_risk |-> a, history |-> h] :
                  a \in LlmRisks, h \in RecentHistories }

\* A function is about to be applied to arguments; no session is running.
InitFunctions ==
    /\ call \in FunctionCalls(TextsUpTo(MaxPhrases))
    /\ result = NoResult
    /\ student_bot = NoStudentBot
    /\ chat_bot = NoChatBot
    /\ session = NoSession
    /\ managers = NoManagers
    /\ pc = "start"
    /\ auto_mode = FALSE
    /\ max_rounds = 0
    /\ current_round = 0
    /\ conversation_history = <<>>
    /\ current_state = "introduction"
    /\ counselor_state_history = <<>>
    /\ flow_control_results = <<>>
    /\ state_transition_history = <<>>
    /\ calls = [counselor |-> 0, flow_control |-> 0, student |-> 0, quality |-> 0]
    /\ failures = 0

Returns(value) ==
    /\ ~result.returned
    /\ result' = [returned |-> TRUE, value |-> value]
    /\ UNCHANGED <<call, student_bot, chat_bot, session, managers>>
    /\ UNCHANGED session_vars

\* Agent.execute, lines 296-297 (and 309-311): the parsed answer is repaired
\* and handed to the result class; a rejection is raised as RuntimeError.
Execute ==
    /\ call.op = "execute"
    /\ LET cleaned == clean_response_data(call.data)
       IN  Returns([accepted |-> ResultClassAccepts(cleaned), data |-> cleaned])

AssessRisk ==
    /\ call.op = "assess_risk"
    /\ Returns(assess_risk(call.content))

MergeRiskAssessments ==
    /\ call.op = "merge"
    /\ Returns(merge_risk_assessments(call.llm_risk, call.rule_risk))

\* evaluate_round, lines 271-275, over two rounds: an evaluator vector is
\* merged with two rule-based assessments one after the other, in both
\* orders, and with the same assessment once and twice.
MergeRounds ==
    /\ call.op = "merge_rounds"
    /\ Returns([first_second |->
                    merge_risk_assessments(
                        merge_risk_assessments(call.llm_risk, call.first), call.second),
                second_first |->
                    merge_risk_assessments(
                        merge_risk_assessments(call.llm_risk, call.second), call.first),
                once |-> merge_risk_assessments(call.llm_risk, call.first),
                twice |->
                    merge_risk_assessments(
                        merge_risk_assessments(call.llm_risk, call.first), call.first)])

ShouldTerminateSession ==
    /\ call.op = "should_terminate_session"
    /\ Returns(should_terminate_session(call.risk_assessment))

\* evaluate_round, lines 266-275, and continue_conversation (main.py), lines
\* 144-156: the evaluator's risk is merged with the rule-based assessment of
\* the history, and the session raises its risk alert when the merged
\* vector asks for termination.
EvaluateRound ==
    /\ call.op = "evaluate_round"
    /\ LET final_risk ==
               merge_risk_assessments(call.llm_risk, rule_based_risk_assessment(call.history))
       IN  Returns([risk_assessment |-> final_risk,
                    risk_alert |-> should_terminate_session(final_risk)])

NextFunctions ==
    \/ EvaluateRound
    \/ Execute
    \/ AssessRisk
    \/ MergeRiskAssessments
    \/ MergeRounds
    \/ ShouldTerminateSession

SpecFunctions == InitFunctions /\ [][NextFunctions]_vars

\* ------------------------------------------------------ the student's affect

\* Largest number of updates applied to one StudentBot.
MaxUpdates == 3

\* Affect levels are floats of [0, 1] in the code; the model counts them in
\* thousandths, products rounded down to a thousandth.
One == 1000

\* models.EmotionState
EmotionStates ==
    {"anxious", "depressed", "confused", "angry", "calm", "hopeful",
     "resistant", "trusting", "avoidant", "open", "other"}

\* constants.EMOTION_TRANSITIONS: every emotion has successors, calm is one
\* of anxious, trusting one of resistant, hopeful one of depressed; the
\* graph has cycles.
EMOTION_TRANSITIONS(e) ==
    CASE e = "anxious"   -> {"calm", "confused", "resistant", "trusting"}
      [] e = "depressed" -> {"hopeful", "calm", "avoidant", "anxious"}
      [] e = "confused"  -> {"calm", "anxious", "open", "resistant"}
      [] e = "angry"     -> {"calm", "resistant", "avoidant"}
      [] e = "calm"      -> {"hopeful", "trusting", "open", "anxious"}
      [] e = "hopeful"   -> {"calm", "trusting", "open"}
      [] e = "resistant" -> {"trusting", "calm", "avoidant", "angry"}
      [] e = "trusting"  -> {"open", "hopeful", "calm"}
      [] e = "avoidant"  -> {"resistant", "anxious", "calm"}
      [] e = "open"      -> {"trusting", "hopeful", "calm"}
      [] OTHER           -> {"calm", "anxious"}

\* _analyze_and_adjust_state, lines 253-262: li jie, gan shou, bu rong yi,
\* wo neng gan shou dao, ting qi lai, dui ni lai shuo, ni de gan shou, zhe
\* hen kun nan.
trust_increase_indicators ==
    { <<"li3", "jie3">>, <<"gan3", "shou4">>, <<"bu4", "rong2", "yi4">>,
      <<"wo3", "neng2", "gan3", "shou4", "dao4">>, <<"ting1", "qi3", "lai2">>,
      <<"dui4", "ni3", "lai2", "shuo1">>, <<"ni3", "de5", "gan3", "shou4">>,
      <<"zhe4", "hen3", "kun4", "nan2">> }

\* line 263: ying gai, bi xu, ni xu yao, jian yi ni, ni yao, zui hao.
trust_decrease_indicators ==
    { <<"ying1", "gai1">>, <<"bi4", "xu1b">>, <<"ni3", "xu1", "yao4">>,
      <<"jian4", "yi4b", "ni3">>, <<"ni3", "yao4">>, <<"zui4", "hao3">> }

\* line 277: ju ti, xiang xi, neng shuo shuo, bi ru.
elaboration_indicators ==
    { <<"ju4", "ti3">>, <<"xiang2", "xi4">>, <<"neng2", "shuo1", "shuo1">>,
      <<"bi3", "ru2">> }

\* _adjust_emotion_state, line 294: li jie, zheng chang de, ke yi li jie, bu
\* yong dan xin, wo men yi qi.
positive_indicators ==
    { <<"li3", "jie3">>, <<"zheng4", "chang2", "de5">>,
      <<"ke3", "yi3", "li3", "jie3">>, <<"bu4", "yong4", "dan1", "xin1">>,
      <<"wo3", "men5", "yi1", "qi3">> }

\* line 298: wei shen me, yuan yin, ni jue de, you mei you xiang guo.
resistance_indicators ==
    { <<"wei4", "shen2", "me5">>, <<"yuan2", "yin1">>, <<"ni3", "jue2", "de2">>,
      <<"you3", "mei2", "you3", "xiang3", "guo4">> }

\* lines 304-308 and 319
positive_emotions == {"calm", "trusting", "hopeful"}
negative_emotions == {"resistant", "avoidant"}

\* max(0, min(1, x)) and min(1, x)
Clamp(x) == IF x < 0 THEN 0 ELSE IF x > One THEN One ELSE x
Min1(x) == IF x > One THEN One ELSE x

\* StudentBot._determine_initial_emotion
InitialEmotion(issue) ==
    CASE issue \in {"academic_anxiety", "social_phobia", "ocd_symptoms", "sleep_problems"}
            -> "anxious"
      [] issue \in {"depression", "relationship_issues"} -> "depressed"
      [] issue \in {"procrastination", "adaptation_issues", "identity_confusion"}
            -> "confused"
      [] issue = "family_conflicts" -> "angry"

\* models.PsychologicalIssue
PsychologicalIssues ==
    {"academic_anxiety", "social_phobia", "depression", "procrastination",
     "ocd_symptoms", "adaptation_issues", "relationship_issues",
     "family_conflicts", "identity_confusion", "sleep_problems"}

\* StudentBot._init_config: the levels a new bot starts with; avoidance and
\* resistance are drawn by random.uniform from the ranges given, and so is
\* chattiness, which no update reads.  updates counts the updates applied.
NewStudentBot(issue, traits, avoidance, resistance) ==
    [constructed |-> TRUE,
     personality_traits |-> traits,
     current_emotion |-> InitialEmotion(issue),
     emotion_history |-> <<>>,
     trust_level |-> 100,
     openness_level |-> 200,
     information_revealed |-> 100,
     avoidance_tendency |-> avoidance,
     resistance_level |-> resistance,
     chattiness |-> 600,
     updates |-> 0]

\* ChatBot.update_state with an EmotionState
update_state(bot, new_emotion, reason) ==
    [bot EXCEPT !.current_emotion = new_emotion,
                !.emotion_history =
                    Append(@, [old_emotion |-> bot.current_emotion,
                               new_emotion |-> new_emotion, reason |-> reason])]

\* Whether the text holds one of the indicators (any(... in response_lower)).
AnyIn(indicators, text) == \E ind \in indicators : Contains(text, ind)

\* An emotion adjustment in which a stimulus with neither kind of indicator
\* calms the student.
adjust_emotion_state_calming(bot, counselor_response) ==
    LET current_transitions == EMOTION_TRANSITIONS(bot.current_emotion)
        available_positive == current_transitions \cap positive_emotions
        available_negative == current_transitions \cap negative_emotions
    IN  IF AnyIn(positive_indicators, counselor_response)
        THEN IF available_positive # {}
             THEN {update_state(bot, e, "understood") : e \in available_positive}
             ELSE {bot}
        ELSE IF AnyIn(resistance_indicators, counselor_response)
        THEN (IF bot.resistance_level > 0
              THEN {update_state(bot, e, "resisting") : e \in available_negative}
                   \cup (IF available_negative = {} THEN {bot} ELSE {})
              ELSE {})
             \cup (IF bot.resistance_level < One THEN {bot} ELSE {})
        ELSE {update_state(bot, "calm", "neutral")}

\* An emotion adjustment that picks among the positive (negative) emotions
\* without looking at the current emotion's successors.
adjust_emotion_state_unfiltered(bot, counselor_response) ==
    IF AnyIn(positive_indicators, counselor_response)
    THEN {update_state(bot, e, "understood") : e \in positive_emotions}
    ELSE IF AnyIn(resistance_indicators, counselor_response)
    THEN {update_state(bot, e, "resisting") : e \in negative_emotions} \cup {bot}
    ELSE {bot}

\* StudentBot._adjust_emotion_state: the bots the call may leave, one for
\* each outcome of random.choice and of random.random() < resistance_level
\* (random() lies in [0, 1)).
adjust_emotion_state(bot, counselor_response) ==
    LET current_transitions == EMOTION_TRANSITIONS(bot.current_emotion)
        available_positive == current_transitions \cap positive_emotions
        available_negative == current_transitions \cap negative_emotions
    IN  IF AnyIn(positive_indicators, counselor_response)
        THEN IF available_positive # {}
             THEN {update_state(bot, e, "understood") : e \in available_positive}
             ELSE {bot}
        ELSE IF AnyIn(resistance_indicators, counselor_response)
        THEN (IF bot.resistance_level > 0
              THEN {update_state(bot, e, "resisting") : e \in available_negative}
                   \cup (IF available_negative = {} THEN {bot} ELSE {})
              ELSE {})
             \cup (IF bot.resistance_level < One THEN {bot} ELSE {})
        ELSE {bot}

\* _analyze_and_adjust_state, lines 276-278
OpennessAfter(openness_level, counselor_response) ==
    IF AnyIn(elaboration_indicators, counselor_response)
    THEN Min1(openness_level + 30)
    ELSE openness_level

\* _analyze_and_adjust_state, lines 265-274
TrustAfter(trust_level, counselor_response) ==
    LET trust_change ==
            50 * Cardinality({ind \in trust_increase_indicators :
                                 Contains(counselor_response, ind)})
            - 20 * Cardinality({ind \in trust_decrease_indicators :
                                   Contains(counselor_response, ind)})
    IN  Clamp(trust_level + trust_change)

\* _analyze_and_adjust_state, lines 280-284: read after trust was updated.
InformationAfter(information_revealed, trust_level) ==
    IF trust_level > 600 THEN Min1(information_revealed + 100)
    ELSE IF trust_level > 300 THEN Min1(information_revealed + 50)
    ELSE information_revealed

\* StudentBot._analyze_and_adjust_state: the bots the call may leave.
analyze_and_adjust_state(bot, counselor_response) ==
    LET trust == TrustAfter(bot.trust_level, counselor_response)
        adjusted ==
            [bot EXCEPT !.trust_level = trust,
                        !.openness_level = OpennessAfter(@, counselor_response),
                        !.information_revealed = InformationAfter(@, trust)]
    IN  adjust_emotion_state(adjusted, counselor_response)

\* x * (tenths / 10), rounded down to a thousandth
Times(x, tenths) == (x * tenths) \div 10

\* nei xiang, wai xiang, min gan, wan mei zhu yi
Introvert == <<"nei4", "xiang4">>
Extravert == <<"wai4", "xiang4">>
Sensitive == <<"min3", "gan3b">>
Perfectionist == <<"wan2", "mei3", "zhu3", "yi4c">>

\* simulate_personality_traits, lines 368-379: the adjustment of one trait.
ApplyTrait(bot, trait) ==
    IF Contains(trait, Introvert) THEN [bot EXCEPT !.openness_level = Times(@, 8)]
    ELSE IF Contains(trait, Extravert) THEN [bot EXCEPT !.chattiness = Times(@, 12)]
    ELSE IF Contains(trait, Sensitive) THEN [bot EXCEPT !.resistance_level = Times(@, 13)]
    ELSE IF Contains(trait, Perfectionist)
    THEN [bot EXCEPT !.avoidance_tendency = Times(@, 12)]
    ELSE bot

\* StudentBot.simulate_personality_traits: the traits in their order.
RECURSIVE ApplyTraits(_, _)
ApplyTraits(bot, traits) ==
    IF traits = <<>> THEN bot
    ELSE ApplyTraits(ApplyTrait(bot, Head(traits)), Tail(traits))

simulate_personality_traits(bot) == ApplyTraits(bot, bot.personality_traits)

\* _validate_numeric_ranges, lines 537-541: a level of the evaluator's
\* student analysis outside [0, 1] is replaced by 0.3.
ValidateAffectLevel(v) == IF 0 <= v /\ v <= One THEN v ELSE 300

\* Student analyses the evaluator may answer: all levels at 0, trust high
\* with resistance and avoidance at 1, and levels out of range, with the
\* emotion it reads off the dialogue.
StudentAnalyses ==
    { [trust_level |-> l[1], openness_level |-> l[1], information_revealed |-> l[1],
       resistance_level |-> l[2], avoidance_tendency |-> l[2], current_emotion |-> e] :
        l \in {<<0, 0>>, <<650, One>>, <<1500, 0 - 200>>}, e \in {"anxious", "calm"} }

\* The analysis as FlowControlResult holds it after clean_response_data.
CleanStudentAnalysis(raw) ==
    [trust_level |-> ValidateAffectLevel(raw.trust_level),
     openness_level |-> ValidateAffectLevel(raw.openness_level),
     information_revealed |-> ValidateAffectLevel(raw.information_revealed),
     resistance_level |-> ValidateAffectLevel(raw.resistance_level),
     avoidance_tendency |-> ValidateAffectLevel(raw.avoidance_tendency),
     current_emotion |-> raw.current_emotion]

\* ChatBot.trans_state, which StudentBot inherits: it raises
\* NotImplementedError and changes nothing.
trans_state(bot, new_state, reason) == [raised |-> TRUE, bot |-> bot]

\* FlowControlAgent.update_student_bot_state: the levels are overwritten,
\* then a different emotion is handed to trans_state.
update_student_bot_state(bot, analysis) ==
    LET updated ==
            [bot EXCEPT !.trust_level = analysis.trust_level,
                        !.openness_level = analysis.openness_level,
                        !.information_revealed = analysis.information_revealed,
                        !.resistance_level = analysis.resistance_level,
                        !.avoidance_tendency = analysis.avoidance_tendency]
    IN  IF analysis.current_emotion # bot.current_emotion
        THEN trans_state(updated, analysis.current_emotion, "flow_control_analysis")
        ELSE [raised |-> FALSE, bot |-> updated]

\* Counselor utterances the student reacts to: ni hao; wo neng gan shou dao
\* zhe hen kun nan; ke yi li jie; ni ying gai; neng shuo shuo ju ti yuan
\* yin; wei shen me; li jie ni de gan shou bi ru.
CounselorResponses ==
    { CounselorText,
      <<"wo3", "neng2", "gan3", "shou4", "dao4", "zhe4", "hen3", "kun4", "nan2">>,
      <<"ke3", "yi3", "li3", "jie3">>,
      <<"ni3", "ying1", "gai1">>,
      <<"neng2", "shuo1", "shuo1", "ju4", "ti3", "yuan2", "yin1">>,
      <<"wei4", "shen2", "me5">>,
      <<"li3", "jie3", "ni3", "de5", "gan3", "shou4", "bi3", "ru2">> }

\* personality_traits of the student's background: one trait naming two
\* characters (nei xiang min gan), or three traits.
TraitLists ==
    { <<Introvert \o Sensitive>>, <<Sensitive, Perfectionist, Extravert>> }

\* No session is running.
SessionIdle ==
    /\ pc = "start"
    /\ auto_mode = FALSE
    /\ max_rounds = 0
    /\ current_round = 0
    /\ conversation_history = <<>>
    /\ current_state = "introduction"
    /\ counselor_state_history = <<>>
    /\ flow_control_results = <<>>
    /\ state_transition_history = <<>>
    /\ calls = [counselor |-> 0, flow_control |-> 0, student |-> 0, quality |-> 0]
    /\ failures = 0

\* A StudentBot after _init_config, nothing applied to it yet.
InitStudent ==
    /\ \E issue \in PsychologicalIssues, traits \in TraitLists,
          drawn \in {<<300, 200>>, <<700, 600>>} :
            student_bot = NewStudentBot(issue, traits, drawn[1], drawn[2])
    /\ call = NoCall
    /\ result = NoResult
    /\ chat_bot = NoChatBot
    /\ session = NoSession
    /\ managers = NoManagers
    /\ SessionIdle

\* An update was applied to the bot: call names it, result tells whether it
\* returned (or raised).
Applied(op, bot, returned) ==
    /\ student_bot.updates < MaxUpdates
    /\ student_bot' = [bot EXCEPT !.updates = @ + 1]
    /\ call' = op
    /\ result' = [returned |-> returned]
    /\ UNCHANGED <<chat_bot, session, managers>>
    /\ UNCHANGED session_vars

\* generate_student_response, lines 222-223: the counselor's last message
\* is analysed.
AnalyzeAndAdjustState(counselor_response) ==
    \E bot \in analyze_and_adjust_state(student_bot, counselor_response) :
        Applied([op |-> "analyze_and_adjust_state",
                 counselor_response |-> counselor_response], bot, TRUE)

\* run(), lines 368-370: the evaluator's analysis overwrites the bot's state.
UpdateStudentBotState(raw) ==
    LET out == update_student_bot_state(student_bot, CleanStudentAnalysis(raw))
    IN  Applied([op |-> "update_student_bot_state", analysis |-> CleanStudentAnalysis(raw)],
                out.bot, ~out.raised)

SimulatePersonalityTraits ==
    Applied([op |-> "simulate_personality_traits"],
            simulate_personality_traits(student_bot), TRUE)

NextStudent ==
    \/ \E counselor_response \in CounselorResponses :
          AnalyzeAndAdjustState(counselor_response)
    \/ \E raw \in StudentAnalyses : UpdateStudentBotState(raw)
    \/ SimulatePersonalityTraits

SpecStudent == InitStudent /\ [][NextStudent]_vars

\* ------------------------------------------------------ views of the logs

Last(seq) == seq[Len(seq)]

\* Positions of the counselor's turns in the conversation history.
CounselorTurns ==
    { k \in DOMAIN conversation_history : conversation_history[k].role = "counselor" }

\* The conversation history as it was when round r was evaluated: the turns
\* numbered up to r (the student's turn r + 1 is appended afterwards).
HistoryAt(r) == SelectSeq(conversation_history, LAMBDA m : m.round_number <= r)

\* The keyword assessment of the student turns that were recent when the
\* i-th evaluation was made.
AssessedRiskAt(i) == rule_based_risk_assessment(HistoryAt(flow_control_results[i].round))

\* The i-th evaluator risk vector merged with that keyword assessment.
MergedRiskAt(i) ==
    merge_risk_assessments(flow_control_results[i].risk_assessment, AssessedRiskAt(i))

\* The phases the counselor went through: the phase of each counselor turn,
\* then the phase in force now.
PhaseSequence ==
    [i \in 1..(Len(counselor_state_history) + 1) |->
        IF i <= Len(counselor_state_history)
        THEN counselor_state_history[i].state ELSE current_state]

\* An evaluation that asked to end the session.
EndSignal(e) == e.need_transition /\ e.recommended_state = NULL

\* An evaluation that recommended nothing and reported no risk.
QuietEvaluation(e) ==
    /\ ~e.need_transition
    /\ e.risk_assessment.overall_risk_level = 0
    /\ ~e.risk_assessment.emergency_required

\* --------------------------------------- the first generation: agents/base.py

\* Largest number of messages one ChatBot is handed through add_message.
MaxMessages == 3

\* Largest number of update_state calls on one ChatBot.
MaxStateUpdates == 2

\* ConversationMessage as the first generation builds it (models.py).
ConversationMessage(role, content, state, emotion, round_number) ==
    [role |-> role, content |-> content, state |-> state, emotion |-> emotion,
     round_number |-> round_number]

\* ChatBot.__init__: empty history, round 0, no phase, no emotion.
NewChatBot ==
    [constructed |-> TRUE,
     conversation_history |-> <<>>,
     current_round |-> 0,
     current_state |-> NULL,
     state_history |-> <<>>,
     current_emotion |-> NULL,
     emotion_history |-> <<>>]

\* add_message that stamps the message without advancing the round counter.
add_message_same_round(bot, role, content) ==
    [bot EXCEPT !.conversation_history =
        Append(@, ConversationMessage(role, content, bot.current_state,
                                      bot.current_emotion, bot.current_round))]

\* ChatBot.add_message: the round counter is advanced, then the message is
\* stamped with it (with the bot's phase and emotion) and appended.
add_message(bot, role, content) ==
    LET round == bot.current_round + 1
    IN  [bot EXCEPT !.current_round = round,
                    !.conversation_history =
                        Append(@, ConversationMessage(role, content, bot.current_state,
                                                      bot.current_emotion, round))]

\* ChatBot.update_state of agents/base.py: a CounselorState replaces the
\* phase, an EmotionState the emotion; each is logged in its own history.
ChatBot_update_state(bot, new_state, reason) ==
    IF new_state \in CounselorStates
    THEN [bot EXCEPT !.current_state = new_state,
                     !.state_history =
                         Append(@, [round |-> bot.current_round,
                                    old_state |-> bot.current_state,
                                    new_state |-> new_state, reason |-> reason])]
    ELSE IF new_state \in EmotionStates
    THEN [bot EXCEPT !.current_emotion = new_state,
                     !.emotion_history =
                         Append(@, [round |-> bot.current_round,
                                    old_emotion |-> bot.current_emotion,
                                    new_emotion |-> new_state, reason |-> reason])]
    ELSE bot

\* ChatBot.reset
reset(bot) ==
    [bot EXCEPT !.conversation_history = <<>>,
                !.current_round = 0,
                !.current_state = NULL,
                !.current_emotion = NULL,
                !.state_history = <<>>,
                !.emotion_history = <<>>]

\* The roles add_message is called with, and the states update_state is.
MessageRoles == {"student", "counselor"}
NewStates == {"exploration", "assessment", "anxious"}

\* A ChatBot fresh from its constructor, nothing else in motion.
InitChatBot ==
    /\ chat_bot = NewChatBot
    /\ call = NoCall
    /\ result = NoResult
    /\ student_bot = NoStudentBot
    /\ session = NoSession
    /\ managers = NoManagers
    /\ SessionIdle

\* A method of the ChatBot was called: call names it (reset with the bot it
\* was called on).
Called(op, bot) ==
    /\ chat_bot' = bot
    /\ call' = op
    /\ UNCHANGED <<result, student_bot, session, managers>>
    /\ UNCHANGED session_vars

AddMessage(role, content) ==
    /\ Len(chat_bot.conversation_history) < MaxMessages
    /\ Called([op |-> "add_message", role |-> role, content |-> content],
              add_message(chat_bot, role, content))

UpdateState(new_state) ==
    /\ Len(chat_bot.state_history) + Len(chat_bot.emotion_history) < MaxStateUpdates
    /\ Called([op |-> "update_state", new_state |-> new_state],
              ChatBot_update_state(chat_bot, new_state, "test"))

Reset ==
    Called([op |-> "reset", self |-> chat_bot], reset(chat_bot))

NextChatBot ==
    \/ \E role \in MessageRoles : AddMessage(role, CounselorText)
    \/ \E new_state \in NewStates : UpdateState(new_state)
    \/ Reset

SpecChatBot == InitChatBot /\ [][NextChatBot]_vars

\* ----------------------------------- the first generation: main.py's session

\* Stand-in for SystemConfig.MAX_CONVERSATION_ROUNDS (50 in settings.py): the
\* largest round a ConversationSession plays before it completes itself.
ConversationRoundsBound == 2

MAX_CONVERSATION_ROUNDS == ConversationRoundsBound

\* Largest number of start_conversation calls on one session (the record's
\* `starts` counts them; the interface lets the user start over).
MaxStarts == 2

\* Python lists are objects and attributes hold references to them.  The
\* session record keeps its list objects in `lists`; conversation_history
\* of the session and of its two bots are indices into it.  Objects 1 to 3
\* are the lists the three constructors make; the others serve the lists
\* start_conversation makes.
ListRefs == 1..6
SessionListRefs == {1, 4, 5, 6}

\* ConversationSession.__init__ and generate_background: the bots are
\* constructed there (the counselor in the introduction phase, the student
\* with the emotion its problem gives it), each with a list of its own.
NewConversationSession(generated, emotion) ==
    [constructed |-> TRUE,
     starts |-> 0,
     background_info |-> generated,
     initial_question |-> (IF generated THEN TextCalm ELSE <<>>),
     lists |-> [ref \in ListRefs |-> <<>>],
     conversation_history |-> 1,
     current_round |-> 0,
     is_completed |-> FALSE,
     risk_alert |-> FALSE,
     student_bot |-> [NewChatBot EXCEPT !.conversation_history = 2,
                                        !.current_emotion = emotion],
     counselor_bot |-> [NewChatBot EXCEPT !.conversation_history = 3,
                                          !.current_state = "introduction"]]

\* `self.conversation_history = []`: a list object nothing else refers to.
\* The session's own reference is dropped by the assignment, so only the
\* bots' references keep a list alive.
FreshList(s) ==
    CHOOSE ref \in SessionListRefs :
        /\ ref \notin {s.student_bot.conversation_history,
                       s.counselor_bot.conversation_history,
                       s.conversation_history}
        /\ \A other \in SessionListRefs :
              other \notin {s.student_bot.conversation_history,
                            s.counselor_bot.conversation_history,
                            s.conversation_history} => ref <= other

\* list.append on the list object `ref`.
AppendTo(s, ref, message) == [s EXCEPT !.lists[ref] = Append(@, message)]

\* len([msg for msg in conversation_history if msg.role == role])
CountRole(history, role) ==
    Cardinality({i \in DOMAIN history : history[i].role = role})

\* ChatBot.generate_response (agents/base.py) once the model has answered:
\* the answer is added to the bot's history with add_message, that is to the
\* list object the bot's conversation_history refers to.
generate_response(s, who, response) ==
    LET bot == s[who]
        ref == bot.conversation_history
        after == add_message([bot EXCEPT !.conversation_history = s.lists[ref]],
                             "assistant", response)
    IN  [s EXCEPT ![who] = [after EXCEPT !.conversation_history = ref],
                  !.lists[ref] = after.conversation_history]

\* CounselorBot.generate_counselor_response: the bot takes the caller's list
\* itself as its history (no copy), sets its round to the number of counselor
\* messages plus one and generates; `failing` is the model call raising.
generate_counselor_response(s, ref, response, failing) ==
    LET taken == [s EXCEPT !.counselor_bot.conversation_history = ref,
                           !.counselor_bot.current_round =
                               CountRole(s.lists[ref], "counselor") + 1]
    IN  IF failing THEN taken ELSE generate_response(taken, "counselor_bot", response)

\* StudentBot._generate_safer_response: safe_responses
safe_responses ==
    { <<"wo3", "dots", "wo3", "zhi3", "shi4b", "you3", "shi2", "hou4", "hui4",
        "zhe4", "yang4", "xiang3", "comma", "ke3", "neng2", "bu4", "shi4b",
        "shen2", "me5", "da4", "wen4", "ti2", "stop">>,
      <<"en4", "comma", "wo3", "jue2", "de5", "wo3", "xu1", "yao4", "shi2",
        "jian1", "xiang3", "xiang3", "stop">>,
      <<"ke3", "neng2", "wo3", "shuo1", "de5", "you3", "dian3", "guo4", "le5",
        "comma", "qi2", "shi2b", "ye3", "mei2", "na4", "me5", "yan2", "zhong4",
        "stop">>,
      <<"wo3", "bu4", "tai4", "que4", "ding4", "gai1", "zen3", "me5", "biao3",
        "da2", "comma", "jiu4", "shi4b", "gan3", "jue2", "hen3", "nan2", "shou4",
        "stop">> }

\* The generated reply returned whatever its assessment.
StudentRepliesUnchecked(response) == {response}

\* StudentBot.generate_student_response, lines 226-231: the replies it can
\* return for a generated one.
StudentReplies(response) ==
    IF assess_risk(response).emergency_required THEN safe_responses ELSE {response}

\* StudentBot._update_conversation_metadata: the last message of the bot's
\* list, when it is a student's, gets the bot's emotion.
update_conversation_metadata(s) ==
    LET ref == s.student_bot.conversation_history
        history == s.lists[ref]
    IN  IF history # <<>> /\ history[Len(history)].role = "student"
        THEN [s EXCEPT !.lists[ref][Len(history)].emotion = s.student_bot.current_emotion]
        ELSE s

\* StudentBot.generate_student_response up to its return: the bot takes
\* the caller's list as its history, sets its round to the number of student
\* messages plus one and generates.  (The affect update on the counselor's
\* last message is followed under SpecStudent.)
generate_student_response(s, ref, response, failing) ==
    LET taken == [s EXCEPT !.student_bot.conversation_history = ref,
                           !.student_bot.current_round =
                               CountRole(s.lists[ref], "student") + 1]
    IN  IF failing THEN taken
        ELSE update_conversation_metadata(generate_response(taken, "student_bot", response))

\* A list object no reference is left to is gone.
Collect(s) ==
    [s EXCEPT !.lists =
        [ref \in ListRefs |->
            IF ref \in {s.conversation_history, s.student_bot.conversation_history,
                        s.counselor_bot.conversation_history}
            THEN s.lists[ref] ELSE <<>>]]

\* What a method returns: None, or a value.
None == [none |-> TRUE]
Some(value) == [none |-> FALSE, value |-> value]

\* What a method of the session did: whether it raised, what it returned
\* and the session it left.
Outcome(raised, value, s) == [raised |-> raised, value |-> value, session |-> Collect(s)]

\* ConversationSession.start_conversation
start_conversation(s, response, failing) ==
    IF ~s.background_info \/ s.initial_question = <<>>
    THEN Outcome(TRUE, None, s)
    ELSE
      LET ref == FreshList(s)
          cleared == [s EXCEPT !.lists[ref] = <<>>,
                               !.conversation_history = ref,
                               !.current_round = 1]
          asked == AppendTo(cleared, ref,
                            ConversationMessage("student", s.initial_question, NULL,
                                                s.student_bot.current_emotion, 1))
          answered == generate_counselor_response(asked, ref, response, failing)
      IN  IF failing
          THEN Outcome(TRUE, None, answered)
          ELSE Outcome(FALSE, Some(response),
                       AppendTo(answered, ref,
                                ConversationMessage("counselor", response,
                                                    answered.counselor_bot.current_state,
                                                    NULL, answered.current_round)))

\* FlowControlAgent.evaluate_round of agents/flow_control.py: the keyword
\* assessment of the recent student messages is merged into the risk section
\* of the evaluator's answer.
evaluate_round(evaluation, history) ==
    [evaluation EXCEPT !.risk_assessment =
        merge_risk_assessments(@, rule_based_risk_assessment(history))]

\* FlowControlAgent.get_state_transition_recommendation of
\* agents/flow_control.py: no phase unless need_transition is set and the
\* recommended name is one of the four phases.
get_state_transition_recommendation(evaluation) ==
    IF ~evaluation.state_transition.need_transition THEN NULL
    ELSE IF evaluation.state_transition.recommended_state \in CounselorStates
         THEN evaluation.state_transition.recommended_state
         ELSE NULL

\* CounselorBot.transition_to_state
transition_to_state(s, new_state, reason) ==
    [s EXCEPT !.counselor_bot = ChatBot_update_state(@, new_state, reason)]

\* A test that lets a session under a risk alert go on.
SessionOverCompletedOnly(s) == s.is_completed

\* continue_conversation, line 120: nothing more is played in a session
\* that is completed or under a risk alert.
SessionOver(s) == s.is_completed \/ s.risk_alert

\* ConversationSession.continue_conversation.  `failing` names the awaited
\* call that raises ("none" when all three return); nothing in the method
\* catches it.
continue_conversation(s, generated, reply, evaluation, counselor_response, failing) ==
    IF SessionOver(s)
    THEN Outcome(FALSE, None, s)
    ELSE IF s.current_round >= MAX_CONVERSATION_ROUNDS
    THEN Outcome(FALSE, None, [s EXCEPT !.is_completed = TRUE])
    ELSE
      LET ref == s.conversation_history
          round == s.current_round + 1
          entered == [s EXCEPT !.current_round = round]
          asked == generate_student_response(entered, ref, generated, failing = "student")
          told == AppendTo(asked, ref,
                           ConversationMessage("student", reply, NULL,
                                               asked.student_bot.current_emotion, round))
          result_ == evaluate_round(evaluation, told.lists[ref])
          new_state == get_state_transition_recommendation(result_)
          moved == IF new_state # NULL
                   THEN transition_to_state(told, new_state,
                                            result_.state_transition.transition_reason)
                   ELSE told
          answered == generate_counselor_response(moved, ref, counselor_response,
                                                  failing = "counselor")
      IN  IF failing = "student" THEN Outcome(TRUE, None, asked)
          ELSE IF failing = "evaluation" THEN Outcome(TRUE, None, told)
          ELSE IF should_terminate_session(result_.risk_assessment)
               THEN Outcome(FALSE, Some(reply), [told EXCEPT !.risk_alert = TRUE])
          ELSE IF failing = "counselor" THEN Outcome(TRUE, None, answered)
          ELSE Outcome(FALSE, Some(reply),
                       AppendTo(answered, ref,
                                ConversationMessage("counselor", counselor_response,
                                                    answered.counselor_bot.current_state,
                                                    NULL, round)))

\* ConversationSession.finalize_conversation, as far as the session's own
\* state goes.
finalize_conversation(s) == Outcome(FALSE, Some("GenerationResult"), [s EXCEPT !.is_completed = TRUE])

\* The evaluator's answers a session is played against.
SessionLlmRisks ==
    { [overall_risk_level |-> o, suicide_risk |-> 0, self_harm_risk |-> 0,
       harm_others_risk |-> 0, risk_indicators |-> {}, emergency_required |-> FALSE,
       risk_description |-> <<>>] : o \in {0, RISK_THRESHOLD} }

NoTransition ==
    [need_transition |-> FALSE, recommended_state |-> "none", transition_reason |-> "stay"]

SessionTransitions ==
    {NoTransition} \cup
    { [need_transition |-> TRUE, recommended_state |-> r, transition_reason |-> "ready"] :
        r \in {"exploration", "none"} }

SessionEvaluations ==
    { [risk_assessment |-> r, state_transition |-> t] :
        r \in SessionLlmRisks, t \in SessionTransitions }

\* What the student's model generates in the sessions explored.
SessionStudentTexts == {TextCalm}

\* How the three awaited calls of one continue_conversation can go: which
\* one raises, and the evaluator's answer when it is read.
ContinueInputs ==
    { [failing |-> f, evaluation |-> e] :
        f \in {"none", "counselor"}, e \in SessionEvaluations }
    \cup
    { [failing |-> f, evaluation |-> CHOOSE e \in SessionEvaluations : TRUE] :
        f \in {"student", "evaluation"} }

\* A ConversationSession fresh from its constructor, or after
\* generate_background.
InitConversation ==
    /\ \E generated \in BOOLEAN :
          session = NewConversationSession(generated, InitialEmotion("academic_anxiety"))
    /\ call = NoCall
    /\ result = NoResult
    /\ student_bot = NoStudentBot
    /\ chat_bot = NoChatBot
    /\ managers = NoManagers
    /\ SessionIdle

\* A method of the session was called: call names it, result tells whether
\* it returned (or raised) and what.
SessionCalled(op, outcome) ==
    /\ session' = outcome.session
    /\ call' = [op |-> op]
    /\ result' = [returned |-> ~outcome.raised, value |-> outcome.value]
    /\ UNCHANGED <<student_bot, chat_bot, managers>>
    /\ UNCHANGED session_vars

GenerateBackground ==
    /\ ~session.background_info
    /\ \E issue \in {"academic_anxiety", "depression"} :
          SessionCalled("generate_background",
                        Outcome(FALSE, Some("background"),
                                [NewConversationSession(TRUE, InitialEmotion(issue)) EXCEPT
                                    !.lists = session.lists,
                                    !.conversation_history = session.conversation_history,
                                    !.current_round = session.current_round,
                                    !.is_completed = session.is_completed,
                                    !.risk_alert = session.risk_alert,
                                    !.starts = session.starts]))

ConversationStart(failing) ==
    /\ session.starts < MaxStarts
    /\ SessionCalled("start_conversation",
                     [start_conversation(session, CounselorText, failing)
                        EXCEPT !.session.starts = @ + 1])

\* The inputs one continue_conversation call reads: none of them once the
\* session is over or has played its last round.
ContinueInputsRead ==
    IF SessionOver(session) \/ session.current_round >= MAX_CONVERSATION_ROUNDS
    THEN {CHOOSE in \in ContinueInputs : in.failing = "student"}
    ELSE ContinueInputs

ConversationContinue(generated, reply, evaluation, failing) ==
    \E outcome \in {continue_conversation(session, generated, reply, evaluation,
                                          CounselorText, failing)} :
        SessionCalled("continue_conversation", outcome)

ConversationFinalize ==
    /\ ~session.is_completed
    /\ SessionCalled("finalize_conversation", finalize_conversation(session))

NextConversation ==
    \/ GenerateBackground
    \/ \E failing \in BOOLEAN : ConversationStart(failing)
    \/ \E generated \in SessionStudentTexts :
          \E reply \in StudentReplies(generated) :
             \E in \in ContinueInputsRead :
                ConversationContinue(generated, reply, in.evaluation, in.failing)
    \/ ConversationFinalize

SpecConversation == InitConversation /\ [][NextConversation]_vars

\* ------------------------------------------ SessionManager objects side by side

\* The sessions run side by side.
SessionIds == {1, 2}

\* The list objects one SessionManager.__init__ makes: conversation_history,
\* flow_control_results, state_transition_history, counselor_state_history.
ListsPerManager == 4

\* The lists bound once, on the class, and so the same for every instance.
NewListShared(allocated, k) == k

\* `self.x = []` in __init__: the k-th list object made by a constructor that
\* runs when `allocated` list objects exist is a new one.
NewList(allocated, k) == allocated + k

\* SessionManager.__init__ (auto mode) followed by initialize_session, which
\* makes the session's own bots: a counselor in the introduction phase and
\* a student.
SessionManagerInit(ms, i, rounds) ==
    [ms EXCEPT
        !.allocated = @ + ListsPerManager,
        !.of[i] =
            [pc |-> "start",
             auto_mode |-> TRUE,
             max_rounds |-> rounds,
             current_round |-> 0,
             conversation_history |-> NewList(ms.allocated, 1),
             flow_control_results |-> NewList(ms.allocated, 2),
             state_transition_history |-> NewList(ms.allocated, 3),
             counselor_state_history |-> NewList(ms.allocated, 4),
             current_state |-> "introduction",
             student_bot |-> NewStudentBot("academic_anxiety", <<>>, 300, 200)]]

\* No SessionManager constructed yet.
NoManagerYet == [pc |-> "unborn"]

EmptyManagers(ids) ==
    [constructed |-> TRUE,
     allocated |-> 0,
     lists |-> [ref \in 1..(ListsPerManager * Cardinality(ids)) |-> <<>>],
     of |-> [i \in ids |-> NoManagerYet]]

\* list.append on the list object an attribute of session i refers to.
AppendAttr(ms, i, attr, x) == [ms EXCEPT !.lists[ms.of[i][attr]] = Append(@, x)]

\* run(), lines 248-298, in auto mode: the initial question is turn 1.
RunStart(ms, i, question) ==
    [AppendAttr(ms, i, "conversation_history", Message("student", question, NULL, 1))
        EXCEPT !.of[i].pc = LoopOrder[1], !.of[i].current_round = 1]

\* run(), lines 301-324
RunCounselor(ms, i) ==
    LET m == ms.of[i]
        said == AppendAttr(ms, i, "conversation_history",
                           Message("counselor", CounselorText, m.current_state,
                                   m.current_round))
        noted == AppendAttr(said, i, "counselor_state_history",
                            [round |-> m.current_round, state |-> m.current_state])
    IN  [noted EXCEPT !.of[i].pc = StepAfter("counselor")]

\* run(), lines 326-447, in auto mode: the evaluation is recorded, the
\* student's levels are overwritten with the evaluator's analysis, a
\* recommended transition is logged and applied, and the loop ends or goes on.
RunFlowControl(ms, i, data, analysis) ==
    LET m == ms.of[i]
        cleaned == clean_response_data(data)
        st == cleaned.state_transition
        updated == update_student_bot_state(m.student_bot, analysis)
        go_on == ShouldContinue(ShouldEnd(st), m.auto_mode, m.current_round,
                                m.max_rounds, "yes")
        recorded == AppendAttr(ms, i, "flow_control_results",
                               [round |-> m.current_round,
                                need_transition |-> st.need_transition,
                                recommended_state |-> st.recommended_state,
                                transition_reason |-> st.transition_reason,
                                risk_assessment |-> cleaned.risk_assessment])
        logged == [recorded EXCEPT !.lists[m.state_transition_history] =
                      TransitionLogAfter(@, m.current_round, m.current_state, st)]
    IN  IF updated.raised
        THEN [recorded EXCEPT !.of[i].pc = OnCallFailure("flow_control")]
        ELSE [logged EXCEPT
                !.of[i].student_bot = updated.bot,
                !.of[i].current_state = StateAfterTransition(m.current_state, st),
                !.of[i].pc = (IF go_on THEN StepAfter("flow_control") ELSE "done"),
                !.of[i].current_round = (IF go_on THEN @ + 1 ELSE @)]

\* run(), lines 449-469
RunStudent(ms, i, text) ==
    [AppendAttr(ms, i, "conversation_history",
                Message("student", text, NULL, ms.of[i].current_round))
        EXCEPT !.of[i].pc = StepAfter("student")]

\* An awaited call of session i raises.
RunFails(ms, i) == [ms EXCEPT !.of[i].pc = OnCallFailure(@)]

\* The evaluator's answers and analyses the sessions are played against.
ConcurrentResponses ==
    { [has_state_transition |-> TRUE, state_transition |-> st,
       has_risk_assessment |-> TRUE, risk_assessment |-> DefaultRiskAssessment,
       risk_missing |-> {}] :
        st \in { [need_transition |-> n, current_state |-> "introduction",
                  recommended_state |-> r, transition_reason |-> "evaluator_reason"] :
                    n \in BOOLEAN, r \in {NULL, "exploration"} } }

ConcurrentAnalyses ==
    { CleanStudentAnalysis(raw) : raw \in {a \in StudentAnalyses : a.current_emotion = "anxious"} }

\* Every state one step of session i can lead to.
StepsOf(ms, i) ==
    LET pc_i == ms.of[i].pc
    IN  (IF pc_i = "start" THEN {RunStart(ms, i, TextCalm)} ELSE {})
        \cup (IF pc_i = "counselor" THEN {RunCounselor(ms, i)} ELSE {})
        \cup (IF pc_i = "flow_control"
              THEN {RunFlowControl(ms, i, data, analysis) :
                        data \in {d \in ConcurrentResponses :
                                    ResultClassAccepts(clean_response_data(d))},
                        analysis \in ConcurrentAnalyses}
              ELSE {})
        \cup (IF pc_i = "student" THEN {RunStudent(ms, i, TextCalm)} ELSE {})
        \cup (IF pc_i \in LoopPcs THEN {RunFails(ms, i)} ELSE {})

\* Two SessionManager objects constructed one after the other.
InitConcurrent ==
    /\ \E rounds \in 1..MaxRoundsBound :
          managers = SessionManagerInit(
                        SessionManagerInit(EmptyManagers(SessionIds), 1, rounds),
                        2, rounds)
    /\ call = NoCall
    /\ result = NoResult
    /\ student_bot = NoStudentBot
    /\ chat_bot = NoChatBot
    /\ session = NoSession
    /\ SessionIdle

\* Session i takes a step of its run().
Stepped(i, ms) ==
    /\ managers' = ms
    /\ UNCHANGED <<call, result, student_bot, chat_bot, session>>
    /\ UNCHANGED session_vars

ConcurrentStart(i) ==
    /\ managers.of[i].pc = "start"
    /\ Stepped(i, RunStart(managers, i, TextCalm))

ConcurrentCounselor(i) ==
    /\ managers.of[i].pc = "counselor"
    /\ Stepped(i, RunCounselor(managers, i))

ConcurrentFlowControl(i, data, analysis) ==
    /\ managers.of[i].pc = "flow_control"
    /\ ResultClassAccepts(clean_response_data(data))
    /\ Stepped(i, RunFlowControl(managers, i, data, analysis))

ConcurrentStudent(i) ==
    /\ managers.of[i].pc = "student"
    /\ Stepped(i, RunStudent(managers, i, TextCalm))

ConcurrentFails(i) ==
    /\ managers.of[i].pc \in LoopPcs
    /\ Stepped(i, RunFails(managers, i))

NextConcurrent ==
    \E i \in SessionIds :
        \/ ConcurrentStart(i)
        \/ ConcurrentCounselor(i)
        \/ \E data \in ConcurrentResponses, analysis \in ConcurrentAnalyses :
              ConcurrentFlowControl(i, data, analysis)
        \/ ConcurrentStudent(i)
        \/ ConcurrentFails(i)

SpecConcurrent == InitConcurrent /\ [][NextConcurrent]_vars

\* --------------------------------- more functions applied on their own

\* Longest history handed to the history conversions.
MaxHistory == 3

\* One message of a converted history: {"role": ..., "content": ...}.
ApiMessage(role, content) == [role |-> role, content |-> content]

\* convert_history_for_student (agents/base.py): a student's message becomes
\* an assistant message, a counselor's a user message, in order; a message
\* of any other role is passed over.
RECURSIVE convert_history_for_student(_)
convert_history_for_student(history) ==
    IF history = <<>> THEN <<>>
    ELSE (IF history[1].role = "student"
          THEN <<ApiMessage("assistant", history[1].content)>>
          ELSE IF history[1].role = "counselor"
          THEN <<ApiMessage("user", history[1].content)>>
          ELSE <<>>)
         \o convert_history_for_student(Tail(history))

\* The counselor's view taken with the student's mapping.
convert_history_for_counselor_unswapped(history) ==
    convert_history_for_student(history)

\* convert_history_for_counselor (agents/base.py): a counselor's message
\* becomes an assistant message, a student's a user message.
RECURSIVE convert_history_for_counselor(_)
convert_history_for_counselor(history) ==
    IF history = <<>> THEN <<>>
    ELSE (IF history[1].role = "counselor"
          THEN <<ApiMessage("assistant", history[1].content)>>
          ELSE IF history[1].role = "student"
          THEN <<ApiMessage("user", history[1].content)>>
          ELSE <<>>)
         \o convert_history_for_counselor(Tail(history))

\* The messages histories are made of: the two roles of a session and the
\* role ChatBot.generate_response stamps on the answers it adds.
HistoryMessages ==
    { ConversationMessage(role, content, NULL, NULL, 1) :
        role \in {"student", "counselor", "assistant"},
        content \in {TextCalm, CounselorText} }

\* The histories of at most n messages.
RECURSIVE HistoriesUpTo(_)
HistoriesUpTo(n) ==
    IF n = 0 THEN {<<>>}
    ELSE LET shorter == HistoriesUpTo(n - 1)
         IN  shorter \cup {Append(h, m) : h \in shorter, m \in HistoryMessages}

\* Largest risk level the evaluator is taken to report (the scale ends at 5).
MaxReportedLevel == 7

\* Integer levels the evaluator may report for one risk field, from below
\* the scale to above it.
ReportedLevels(n) == (0 - 2)..n

\* A risk section whose four levels are the same report.
RiskReport(level) ==
    [DefaultRiskAssessment EXCEPT !.overall_risk_level = level, !.suicide_risk = level,
                                  !.self_harm_risk = level, !.harm_others_risk = level]

\* The applications explored: the conversions of the histories of at most n
\* messages, the sanitiser on two reports, the student's reply for what its
\* model generated, and the keyword assessor on a text and on the text
\* continued by at most one phrase.
UtilityCalls(n, texts) ==
    { [op |-> "convert_history", history |-> h] : h \in HistoriesUpTo(n) }
    \cup
    { [op |-> "validate_numeric_ranges", x |-> x, y |-> y] :
        x, y \in ReportedLevels(MaxReportedLevel) }
    \cup
    { [op |-> "generate_student_response", response |-> t] : t \in texts }
    \cup
    { [op |-> "assess_risk_of_both", s |-> s, t |-> t] : s \in texts, t \in TextsUpTo(1) }

InitUtilities ==
    /\ call \in UtilityCalls(MaxHistory, TextsUpTo(MaxPhrases))
    /\ result = NoResult
    /\ student_bot = NoStudentBot
    /\ chat_bot = NoChatBot
    /\ session = NoSession
    /\ managers = NoManagers
    /\ SessionIdle

\* Both conversions of one history.
ConvertHistory ==
    /\ call.op = "convert_history"
    /\ Returns([for_student |-> convert_history_for_student(call.history),
                for_counselor |-> convert_history_for_counselor(call.history)])

\* _validate_numeric_ranges applied to two reports.
ValidateReports ==
    /\ call.op = "validate_numeric_ranges"
    /\ Returns([x |-> ValidateNumericRanges(RiskReport(call.x)),
                y |-> ValidateNumericRanges(RiskReport(call.y))])

\* StudentBot.generate_student_response, lines 226-240: the reply returned
\* for what the model generated.
GenerateStudentResponse ==
    /\ call.op = "generate_student_response"
    /\ \E reply \in StudentReplies(call.response) : Returns(reply)

\* RiskAssessmentMixin.assess_risk applied to a text and to the text with
\* another appended.
AssessBoth ==
    /\ call.op = "assess_risk_of_both"
    /\ Returns([s |-> assess_risk(call.s), st |-> assess_risk(call.s \o call.t)])

NextUtilities ==
    \/ ConvertHistory
    \/ ValidateReports
    \/ GenerateStudentResponse
    \/ AssessBoth

SpecUtilities == InitUtilities /\ [][NextUtilities]_vars

\* ------------------------------------------------------------------ claims

C3_LoopEndsAtFirstEmergency ==
    \A i \in DOMAIN flow_control_results :
        should_terminate_session(MergedRiskAt(i)) =>
            /\ i = Len(flow_control_results)
            /\ pc \notin LoopPcs
            /\ current_round = flow_control_results[i].round

\* C4: the emergency decision uses the keyword assessment of the recent
\* student turns: when that assessment reaches RISK_THRESHOLD the session
\* ends that round even though the evaluator reported level 0 and no emergency.
C4_KeywordRiskEndsSession ==
    \A i \in DOMAIN flow_control_results :
        ( /\ AssessedRiskAt(i).overall_risk >= RISK_THRESHOLD
          /\ flow_control_results[i].risk_assessment.overall_risk_level = 0
          /\ ~flow_control_results[i].risk_assessment.emergency_required )
        => pc \notin LoopPcs

\* C5: in an auto-mode session with max_rounds = N >= 1 whose evaluator never
\* recommends a transition and never reports risk (and whose calls all
\* return), no turn is numbered above N, the loop is never in a round above
\* N, and when the loop has ended current_round = N and exactly N counselor
\* turns were produced.
C5_QuietSessionEndsAtMaxRounds ==
    ( /\ auto_mode
      /\ max_rounds >= 1
      /\ failures = 0
      /\ \A i \in DOMAIN flow_control_results : QuietEvaluation(flow_control_results[i]) )
    =>
      /\ current_round <= max_rounds
      /\ \A k \in DOMAIN conversation_history :
            conversation_history[k].round_number <= max_rounds
      /\ pc \in {"done", "exported"} =>
            /\ current_round = max_rounds
            /\ Cardinality(CounselorTurns) = max_rounds
            /\ Len(flow_control_results) = max_rounds

\* C5 witness: a quiet auto-mode session of several rounds that ended by
\* reaching max_rounds.
C5_Witness ==
    /\ pc = "done"
    /\ auto_mode
    /\ max_rounds >= 2
    /\ current_round = max_rounds
    /\ Cardinality(CounselorTurns) = max_rounds
    /\ \A i \in DOMAIN flow_control_results : QuietEvaluation(flow_control_results[i])

\* C6 as stated: every auto-mode session eventually leaves the turn loop, and
\* while it runs current_round never exceeds max_rounds.
C6_RoundNeverExceedsMaxRounds ==
    /\ [](auto_mode /\ pc \in LoopPcs => current_round <= max_rounds)
    /\ (auto_mode /\ pc \in LoopPcs) ~> (pc \notin LoopPcs)

\* C6 amended: every auto-mode session eventually leaves the turn loop, and
\* while it runs current_round never exceeds max_rounds when max_rounds >= 1;
\* round 1 is always played, so with max_rounds < 1 the session stays in
\* round 1.
C6_AutoSessionTerminates ==
    /\ [](auto_mode /\ pc \in LoopPcs =>
            current_round <= (IF max_rounds >= 1 THEN max_rounds ELSE 1))
    /\ (auto_mode /\ pc \in LoopPcs) ~> (pc \notin LoopPcs)

\* C6 witness: an auto-mode session in which a transition was applied has
\* left the loop in its last permitted round.
C6_Witness ==
    /\ pc = "done"
    /\ auto_mode
    /\ max_rounds >= 2
    /\ current_round = max_rounds
    /\ \E i \in DOMAIN state_transition_history : ~state_transition_history[i].auto_end

C9_StepsInOrder ==
    /\ pc = "counselor" =>
          /\ Len(flow_control_results) = Len(counselor_state_history)
          /\ Last(conversation_history).role = "student"
          /\ Last(conversation_history).round_number = current_round
    /\ pc = "flow_control" =>
          /\ Len(counselor_state_history) = Len(flow_control_results) + 1
          /\ Last(conversation_history).role = "counselor"
          /\ Last(conversation_history).round_number = current_round
          /\ Last(counselor_state_history).round = current_round
    /\ pc = "student" =>
          /\ Len(flow_control_results) = Len(counselor_state_history)
          /\ Last(flow_control_results).round = current_round - 1
          /\ Last(conversation_history).role = "counselor"
          /\ Last(conversation_history).round_number = current_round - 1
    /\ \A k \in DOMAIN conversation_history :
          LET m == conversation_history[k]
          IN  (m.role = "student" /\ m.round_number > 1) =>
                /\ k > 1
                /\ conversation_history[k - 1].role = "counselor"
                /\ conversation_history[k - 1].round_number = m.round_number - 1
                /\ \E i \in DOMAIN flow_control_results :
                      flow_control_results[i].round = m.round_number - 1

\* C9 witness: the second round's counselor turn is awaited, the first round
\* having been evaluated and the student having answered.
C9_Witness ==
    /\ pc = "counselor"
    /\ current_round = 2
    /\ Len(flow_control_results) = 1
    /\ Len(conversation_history) = 3

Returned(op) == call.op = op /\ result.returned

\* C11: an evaluator answer that parses but lacks a section, or a level key
\* of the risk section, is accepted after repair: the missing risk levels are
\* 0 with no emergency, a missing state-transition section is "no
\* transition".
C11_IncompleteAnswerRepaired ==
    ( /\ Returned("execute")
      /\ \/ ~call.data.has_state_transition
         \/ ~call.data.has_risk_assessment
         \/ call.data.risk_missing # {} )
    =>
      /\ result.value.accepted
      /\ ~call.data.has_state_transition =>
            ~result.value.data.state_transition.need_transition
      /\ ~call.data.has_risk_assessment =>
            /\ result.value.data.risk_assessment.overall_risk_level = 0
            /\ ~result.value.data.risk_assessment.emergency_required

WellFormedLlmRisk(r) ==
    /\ {r.overall_risk_level, r.suicide_risk, r.self_harm_risk, r.harm_others_risk} \subseteq 0..5
    /\ r.overall_risk_level = Max3(r.suicide_risk, r.self_harm_risk, r.harm_others_risk)

\* The same for a vector in the keyword assessor's field names.
WellFormedRuleRisk(r) ==
    /\ {r.overall_risk, r.suicide_risk, r.self_harm_risk, r.harm_others_risk} \subseteq 0..5
    /\ r.overall_risk = Max3(r.suicide_risk, r.self_harm_risk, r.harm_others_risk)

\* C13: every risk vector produced - by the keyword assessor, by sanitising
\* an accepted evaluator answer, by merging - has its levels in 0..5 and its
\* overall level equal to the largest category level.
C13_RiskVectorsWellFormed ==
    /\ Returned("assess_risk") => WellFormedRuleRisk(result.value)
    /\ (Returned("execute") /\ result.value.accepted) =>
          WellFormedLlmRisk(result.value.data.risk_assessment)
    /\ Returned("evaluate_round") => WellFormedLlmRisk(result.value.risk_assessment)

AllKeywords == SUICIDE_KEYWORDS \cup SELF_HARM_KEYWORDS \cup HARM_OTHERS_KEYWORDS

\* C14: for the empty text and every text containing no risk keyword, the
\* assessment has all four levels 0, no emergency and no indicator.
C14_KeywordFreeTextIsRiskFree ==
    (Returned("assess_risk") /\ MatchedKeywords(call.content, AllKeywords) = {}) =>
        result.value = [suicide_risk |-> 0, self_harm_risk |-> 0, harm_others_risk |-> 0,
                        overall_risk |-> 0, risk_indicators |-> {},
                        emergency_required |-> FALSE]

\* C14 witness: a non-empty text without keyword (wo hen lei si) was assessed.
C14_Witness ==
    /\ Returned("assess_risk")
    /\ call.content = <<"wo3", "hen3", "lei4", "si3">>
    /\ result.value.overall_risk = 0

\* The level the threshold map gives to a score.
LevelOfScore(score) ==
    IF score >= 5 THEN 5
    ELSE IF score >= 3 THEN 4
    ELSE IF score >= 2 THEN 3
    ELSE IF score >= 1 THEN 2
    ELSE 0

\* The level of a category when only its own matched keywords weigh.
CategoryLevel(content, keywords) ==
    LET matched == MatchedKeywords(content, keywords)
    IN  LevelOfScore(Cardinality(matched) + 2 * Cardinality(matched \cap HIGH_RISK_KEYWORDS))

\* C15: each category's level is the threshold map of |matched| + 2 *
\* |matched high-risk keywords of that category|, matched being the
\* category's own keywords found in the text.
C15_LevelFromOwnKeywords ==
    Returned("assess_risk") =>
        /\ result.value.suicide_risk = CategoryLevel(call.content, SUICIDE_KEYWORDS)
        /\ result.value.self_harm_risk = CategoryLevel(call.content, SELF_HARM_KEYWORDS)
        /\ result.value.harm_others_risk = CategoryLevel(call.content, HARM_OTHERS_KEYWORDS)

\* C16: a text with a high-risk keyword and at least one other risk keyword
\* is assessed with overall level >= 4 and an emergency, and every high-risk
\* keyword it contains is among the indicators.
C16_HighRiskKeywordWithAnother ==
    ( /\ Returned("assess_risk")
      /\ \E h \in HIGH_RISK_KEYWORDS :
            /\ Contains(call.content, h)
            /\ \E k \in AllKeywords \ {h} : Contains(call.content, k) )
    =>
      /\ result.value.overall_risk >= 4
      /\ result.value.emergency_required
      /\ MatchedKeywords(call.content, HIGH_RISK_KEYWORDS) \subseteq result.value.risk_indicators

\* C16 witness: zi sha with teng tong (a self-harm keyword that is not
\* high-risk) was assessed as an emergency.
C16_Witness ==
    /\ Returned("assess_risk")
    /\ call.content = <<"zi4", "sha1", "teng2", "tong4">>
    /\ result.value.overall_risk >= 4
    /\ result.value.emergency_required

C18_MergeIsFieldwiseMax ==
    Returned("merge") =>
        LET a == call.llm_risk
            b == call.rule_risk
            m == result.value
        IN  /\ m.overall_risk_level = Max2(a.overall_risk_level, b.overall_risk)
            /\ m.overall_risk_level >= a.overall_risk_level
            /\ m.overall_risk_level >= b.overall_risk
            /\ m.suicide_risk = Max2(a.suicide_risk, b.suicide_risk)
            /\ m.self_harm_risk = Max2(a.self_harm_risk, b.self_harm_risk)
            /\ m.harm_others_risk = Max2(a.harm_others_risk, b.harm_others_risk)
            /\ m.risk_indicators = a.risk_indicators \cup b.risk_indicators
            /\ m.emergency_required = (a.emergency_required \/ b.emergency_required)

\* C18 witness: a merge in which the evaluator has the larger overall level
\* and no emergency, the keyword assessor the larger suicide level and an
\* emergency, and each has an indicator the other lacks.
C18_Witness ==
    /\ Returned("merge")
    /\ call.llm_risk.overall_risk_level > call.rule_risk.overall_risk
    /\ call.llm_risk.suicide_risk < call.rule_risk.suicide_risk
    /\ ~call.llm_risk.emergency_required
    /\ call.rule_risk.emergency_required
    /\ call.llm_risk.risk_indicators \ call.rule_risk.risk_indicators # {}
    /\ call.rule_risk.risk_indicators \ call.llm_risk.risk_indicators # {}
    /\ result.value.overall_risk_level = call.llm_risk.overall_risk_level

\* C19: merging is independent of order and repetition on every field, the
\* description included: merging two assessments into a vector in either
\* order gives the same vector, and merging an assessment a second time
\* changes nothing.
C19_MergeOrderAndRepetitionFree ==
    Returned("merge_rounds") =>
        /\ result.value.first_second = result.value.second_first
        /\ result.value.twice = result.value.once

AffectLevels(bot) ==
    {bot.trust_level, bot.openness_level, bot.information_revealed,
     bot.resistance_level, bot.avoidance_tendency}

\* C21: after any sequence of stimulus-driven updates, evaluator-driven
\* overwrites and personality-trait adjustments, trust, openness,
\* information revealed, resistance and avoidance all lie in [0, 1].
C21_AffectLevelsInUnitInterval ==
    student_bot.constructed => \A level \in AffectLevels(student_bot) : 0 <= level /\ level <= One

ElaborationMatches(text) == {ind \in elaboration_indicators : Contains(text, ind)}

\* C23: an affect update raises openness by 0.03 for each distinct
\* elaboration indicator found in the stimulus, clamped to [0, 1].
C23_OpennessPerIndicator ==
    [][ (student_bot.constructed /\ call'.op = "analyze_and_adjust_state"
          /\ student_bot' # student_bot)
        => student_bot'.openness_level =
              Clamp(student_bot.openness_level
                    + 30 * Cardinality(ElaborationMatches(call'.counselor_response))) ]_vars

\* A manual session was ended by the user's answer to the question whether
\* to go on (no or quit), not by the evaluator's end signal.
UserStopped ==
    /\ ~auto_mode
    /\ pc \in {"done", "exited", "exported", "export_failed"}
    /\ flow_control_results # <<>>
    /\ ~EndSignal(Last(flow_control_results))

session_data ==
    [session_info |-> [total_rounds |-> current_round],
     initial_question |->
        IF conversation_history = <<>> THEN <<>> ELSE conversation_history[1].content,
     conversation_history |-> conversation_history,
     flow_control_results |-> flow_control_results,
     state_transition_history |-> state_transition_history,
     counselor_state_history |-> counselor_state_history,
     final_states |-> [counselor_final_state |-> current_state]]

\* The termination reasons the exported record may name.
TerminationReasons ==
    {"normal_phase_exhaustion", "flow_control_end", "max_rounds", "risk_emergency", "error"}

\* C25: every ended session exposes one termination reason, one of
\* normal_phase_exhaustion, flow_control_end, max_rounds, risk_emergency and
\* error, that matches what ended the loop: a session ended by the
\* evaluator's end signal exposes flow_control_end, an auto-mode session ended
\* at its round limit exposes max_rounds.
C25_TerminationReasonExposed ==
    pc = "exported" =>
        /\ "termination_reason" \in DOMAIN session_data
        /\ session_data.termination_reason \in TerminationReasons
        /\ EndSignal(Last(flow_control_results))
              => session_data.termination_reason = "flow_control_end"
        /\ (auto_mode /\ ~EndSignal(Last(flow_control_results)))
              => session_data.termination_reason = "max_rounds"

\* C30: for a ChatBot driven through add_message (and update_state) since
\* its construction or its last reset, current_round equals the length of
\* conversation_history and the i-th message carries round_number i; a
\* reset leaves the bot exactly as its constructor does: empty history,
\* round 0, no phase, no emotion, empty phase and emotion histories.
C30_RoundsCountMessages ==
    chat_bot.constructed =>
        /\ chat_bot.current_round = Len(chat_bot.conversation_history)
        /\ \A i \in 1..Len(chat_bot.conversation_history) :
               chat_bot.conversation_history[i].round_number = i
        /\ (call.op = "reset" => chat_bot = NewChatBot)

\* C30 witness: reset has just been called on a bot that held two messages,
\* a phase and an emotion.
C30_Witness ==
    /\ chat_bot.constructed
    /\ call.op = "reset"
    /\ Len(call.self.conversation_history) = 2
    /\ call.self.current_state # NULL
    /\ call.self.current_emotion # NULL

\* The session's history: the list its conversation_history refers to.
SessionHistory == session.lists[session.conversation_history]

\* C29: when start_conversation has returned on a session whose background
\* and initial question are set, the session's history is exactly the
\* student's initial question followed by the counselor's reply, both with
\* round_number 1, and current_round is 1 - with the reply produced by
\* CounselorBot.generate_counselor_response on the list it is handed.
C29_StartLeavesTwoTurns ==
    (session.constructed /\ call.op = "start_conversation" /\ result.returned) =>
        /\ session.current_round = 1
        /\ Len(SessionHistory) = 2
        /\ SessionHistory[1].role = "student"
        /\ SessionHistory[1].content = session.initial_question
        /\ SessionHistory[1].round_number = 1
        /\ SessionHistory[2].role = "counselor"
        /\ SessionHistory[2].round_number = 1

\* One sequence continues the other: nothing removed, replaced or reordered.
IsPrefix(old, new) ==
    Len(old) <= Len(new) /\ SubSeq(new, 1, Len(old)) = old

NonDecreasingRounds(history) ==
    \A i, j \in 1..Len(history) :
        i <= j => history[i].round_number <= history[j].round_number

\* C26: the history of a ConversationSession is append-only from one
\* start_conversation on - no operation removes, replaces, reorders or
\* modifies a turn once appended - and the round numbers of its successive
\* turns never decrease.
C26_AppendOnlyNonDecreasing ==
    /\ [][(session.constructed /\ call'.op # "start_conversation")
            => IsPrefix(SessionHistory, SessionHistory')]_vars
    /\ [](session.constructed => NonDecreasingRounds(SessionHistory))

\* The evaluations of a session in which the evaluator recommended a
\* transition: the recommendation stands (need_transition, with a phase or
\* as the end signal) or was withdrawn as illegal by the validation, which
\* leaves its reason in the evaluation.
IsRecommendation(e) ==
    e.need_transition \/ e.transition_reason = IllegalTransitionReason

\* C27: every transition recommendation of the evaluator - accepted,
\* rejected as illegal, or an end signal - has an entry in the session's
\* phase-transition log carrying its round, the phase it was made from, the
\* requested phase and the accept/reject reason, and the exported record
\* holds that log.
C27_EveryRecommendationLogged ==
    /\ \A i \in DOMAIN flow_control_results :
          LET e == flow_control_results[i]
          IN  IsRecommendation(e) =>
                \E k \in DOMAIN state_transition_history :
                    LET t == state_transition_history[k]
                    IN  /\ t.round = e.round
                        /\ t.from_state \in CounselorStates
                        /\ t.reason = e.transition_reason
                        /\ (e.need_transition => t.to_state = e.recommended_state)
    /\ (pc = "exported" =>
            session_data.state_transition_history = state_transition_history)

\* What session i holds: its attributes, each list attribute with the
\* contents of the list object it refers to.
View(ms, i) ==
    LET m == ms.of[i]
    IN  [m EXCEPT !.conversation_history = ms.lists[@],
                  !.flow_control_results = ms.lists[@],
                  !.state_transition_history = ms.lists[@],
                  !.counselor_state_history = ms.lists[@]]

\* The session holding v, alone in the process.
Alone(v) ==
    [constructed |-> TRUE,
     allocated |-> ListsPerManager,
     lists |-> <<v.conversation_history, v.flow_control_results,
                 v.state_transition_history, v.counselor_state_history>>,
     of |-> [i \in {1} |->
                [v EXCEPT !.conversation_history = 1, !.flow_control_results = 2,
                          !.state_transition_history = 3,
                          !.counselor_state_history = 4]]]

\* What a session holding v can hold after one step when it runs alone.
SoloSuccessors(v) == {View(after, 1) : after \in StepsOf(Alone(v), 1)}

SwapRole(role) == IF role = "assistant" THEN "user" ELSE "assistant"

\* C31: for a history made of student and counselor messages only, each of
\* convert_history_for_student and convert_history_for_counselor returns a
\* list as long as the history with the contents in the history's order; the
\* first turns student into assistant and counselor into user, and the
\* second is the role swap of the first at every index.
C31_ConversionsMirror ==
    (/\ Returned("convert_history")
     /\ \A i \in DOMAIN call.history : call.history[i].role \in {"student", "counselor"}) =>
        LET for_student == result.value.for_student
            for_counselor == result.value.for_counselor
        IN  /\ Len(for_student) = Len(call.history)
            /\ Len(for_counselor) = Len(call.history)
            /\ \A i \in DOMAIN call.history :
                  /\ for_student[i].content = call.history[i].content
                  /\ for_counselor[i].content = call.history[i].content
                  /\ for_student[i].role =
                        (IF call.history[i].role = "student" THEN "assistant" ELSE "user")
                  /\ for_counselor[i].role = SwapRole(for_student[i].role)

\* C31 witness: a history of three messages of both roles and of different
\* contents has been converted.
C31_Witness ==
    /\ Returned("convert_history")
    /\ Len(call.history) = 3
    /\ call.history[1].role = "student"
    /\ call.history[2].role = "counselor"
    /\ call.history[3].role = "student"
    /\ call.history[1].content # call.history[2].content

\* The emotions a stimulus makes the student lean to: the positive ones when
\* it holds a positive indicator, otherwise the negative ones when it holds a
\* resistance indicator, otherwise none.
CandidateEmotions(counselor_response) ==
    IF AnyIn(positive_indicators, counselor_response) THEN positive_emotions
    ELSE IF AnyIn(resistance_indicators, counselor_response) THEN negative_emotions
    ELSE {}

\* C32: an affect update whose stimulus holds neither a positive nor a
\* resistance indicator, or whose candidate emotions include no successor of
\* the current emotion, leaves the emotion as it was and adds no record to
\* the emotion history.
C32_NoCandidateNoChange ==
    [][ (/\ student_bot.constructed
         /\ call'.op = "analyze_and_adjust_state"
         /\ student_bot'.updates = student_bot.updates + 1
         /\ EMOTION_TRANSITIONS(student_bot.current_emotion)
                \cap CandidateEmotions(call'.counselor_response) = {})
        => /\ student_bot'.current_emotion = student_bot.current_emotion
           /\ student_bot'.emotion_history = student_bot.emotion_history ]_vars

\* C32 witness: a student who had become calm, an emotion with no negative
\* successor, has been asked "wei shen me" and is still calm, the record of
\* becoming calm being the only one.
C32_Witness ==
    /\ student_bot.constructed
    /\ call.op = "analyze_and_adjust_state"
    /\ call.counselor_response = <<"wei4", "shen2", "me5">>
    /\ student_bot.current_emotion = "calm"
    /\ Len(student_bot.emotion_history) = 1
    /\ student_bot.emotion_history[1].new_emotion = "calm"
    /\ student_bot.updates >= 2

\* The phase of the counselor's turn of round r (NULL when there is none).
TagOfRound(r) ==
    LET turns == {k \in CounselorTurns : conversation_history[k].round_number = r}
    IN  IF turns = {} THEN NULL ELSE conversation_history[CHOOSE k \in turns : TRUE].state

C34_OverSessionIsInert ==
    [][ session.constructed =>
          /\ session.risk_alert => session'.risk_alert
          /\ session.is_completed => session'.is_completed
          /\ ((session.risk_alert \/ session.is_completed)
                /\ call'.op = "continue_conversation")
               => /\ result'.returned
                  /\ result'.value.none
                  /\ session' = session ]_vars

\* C34 witness: continue_conversation has returned None on a session under
\* a risk alert whose history holds the turns played before.
C34_Witness ==
    /\ session.constructed
    /\ session.risk_alert
    /\ ~session.is_completed
    /\ call.op = "continue_conversation"
    /\ result.returned
    /\ result.value.none
    /\ Len(SessionHistory) >= 4

\* The round numbers the session itself stamped on the turns of a history.
SessionRounds(history) ==
    { history[i].round_number :
        i \in {k \in DOMAIN history : history[k].role \in {"student", "counselor"}} }

\* C35: after a continue_conversation call in which an external call failed,
\* current_round is the round number of the last message of the history,
\* and no continue_conversation call adds a turn whose round number lies
\* more than one above the round numbers the session had stamped before.
C35_FailureLeavesRoundsConsistent ==
    /\ []((/\ session.constructed
           /\ call.op = "continue_conversation"
           /\ ~result.returned
           /\ SessionHistory # <<>>)
          => session.current_round = Last(SessionHistory).round_number)
    /\ [][ (/\ session.constructed
            /\ call'.op = "continue_conversation"
            /\ SessionRounds(SessionHistory) # {})
           => \A r \in SessionRounds(SessionHistory') \ SessionRounds(SessionHistory) :
                 \E q \in SessionRounds(SessionHistory) : r <= q + 1 ]_vars

\* The four levels of a risk section.
RiskLevels(risk) ==
    <<risk.overall_risk_level, risk.suicide_risk, risk.self_harm_risk, risk.harm_others_risk>>

\* C36: sanitising the evaluator's risk levels is monotone: of two integer
\* reports x <= y the sanitised x is at most the sanitised y (a report above
\* 5 is treated as no less risky than a report of 5), and a level already in
\* 0..5 is not lowered.
C36_SanitisingIsMonotone ==
    Returned("validate_numeric_ranges") =>
        \A i \in 1..4 :
            /\ call.x <= call.y => RiskLevels(result.value.x)[i] <= RiskLevels(result.value.y)[i]
            /\ call.x \in 0..5 => RiskLevels(result.value.x)[i] >= call.x

\* The risk keywords of the three categories.
RiskKeywords == SUICIDE_KEYWORDS \cup SELF_HARM_KEYWORDS \cup HARM_OTHERS_KEYWORDS

\* C37: an utterance returned by generate_student_response is, taken alone,
\* not an emergency for the keyword assessor; when the generated reply was
\* one, what is returned instead is a canned reply holding no risk keyword.
C37_ReturnedReplyIsNoEmergency ==
    Returned("generate_student_response") =>
        /\ ~assess_risk(result.value).emergency_required
        /\ assess_risk(call.response).emergency_required =>
              /\ result.value \in safe_responses
              /\ MatchedKeywords(result.value, RiskKeywords) = {}

\* C37 witness: the model generated "xiang si" followed by "zi sha", an
\* emergency, and a canned reply was returned for it.
C37_Witness ==
    /\ Returned("generate_student_response")
    /\ call.response = <<"xiang3", "si3", "zi4", "sha1">>
    /\ assess_risk(call.response).emergency_required
    /\ result.value \in safe_responses

\* C40: the keyword assessor is monotone under appending: each of the four
\* levels of the assessment of s followed by t is at least the level of the
\* assessment of s, the indicators of s are among those of s followed by t,
\* and an emergency for s is an emergency for s followed by t.
C40_AssessorMonotone ==
    Returned("assess_risk_of_both") =>
        LET of_s == result.value.s
            of_st == result.value.st
        IN  /\ of_st.suicide_risk >= of_s.suicide_risk
            /\ of_st.self_harm_risk >= of_s.self_harm_risk
            /\ of_st.harm_others_risk >= of_s.harm_others_risk
            /\ of_st.overall_risk >= of_s.overall_risk
            /\ of_s.risk_indicators \subseteq of_st.risk_indicators
            /\ of_s.emergency_required => of_st.emergency_required

\* C40 witness: "zi sha" was continued by "si", which raises the level for
\* harm to others with a keyword, "sha si", that neither text holds.
C40_Witness ==
    /\ Returned("assess_risk_of_both")
    /\ call.s = <<"zi4", "sha1">>
    /\ call.t = <<"si3">>
    /\ result.value.s.harm_others_risk = 0
    /\ result.value.st.harm_others_risk > 0
    /\ result.value.s.suicide_risk > 0

\* Positions of the turns of a role numbered r in the conversation history.
TurnsOf(role, r) ==
    { k \in DOMAIN conversation_history :
        conversation_history[k].role = role /\ conversation_history[k].round_number = r }

\* C38: in a session driven by run() the history alternates student,
\* counselor, student, ... from the student's initial question on: every
\* round from 1 to current_round has exactly one student turn and at most
\* one counselor turn, the counselor's directly after the student's.  (Read
\* at the points where run() is not awaiting the student's reply.)
C38_HistoryAlternates ==
    pc # "student" =>
        /\ \A k \in DOMAIN conversation_history :
              conversation_history[k].role = (IF k % 2 = 1 THEN "student" ELSE "counselor")
        /\ \A r \in 1..current_round :
              /\ Cardinality(TurnsOf("student", r)) = 1
              /\ Cardinality(TurnsOf("counselor", r)) <= 1
              /\ \A k \in TurnsOf("counselor", r) : k - 1 \in TurnsOf("student", r)

\* The phase a transition log leaves the counselor in: the last to_state
\* that is not null, the introduction when there is none.
RECURSIVE PhaseAfterLog(_)
PhaseAfterLog(log) ==
    IF log = <<>> THEN "introduction"
    ELSE IF Last(log).to_state # NULL THEN Last(log).to_state
    ELSE PhaseAfterLog(SubSeq(log, 1, Len(log) - 1))

====
